---- MODULE Spec2Model ----
(***************************************************************************)
(* Model of the MMVT analysis stage of SEEKR2                              *)
(* (seekr2/modules/mmvt_analyze.py):                                       *)
(*   - the OpenMM event-log reader openmm_read_output_file_list,           *)
(*   - the per-anchor statistics object MMVT_anchor_statistics,            *)
(*   - the sampling loop of monte_carlo_milestoning_error.                 *)
(* Times are integers (the code uses floats read from the log); a dict is  *)
(* a function whose DOMAIN is its key set; Python's None is the integer    *)
(* None, which is no boundary and no time.                                 *)
(***************************************************************************)
EXTENDS Integers, Sequences, FiniteSets, TLC

\* ------------------------------------------------------------------ bounds
MaxFiles == 3
MaxLines == 3
MaxNum == 2
MaxSkip == 2
MaxStride == 2
MaxMilestones == 2

\* ------------------------------------------------------- program constants
None == -1
MAX_ITER == 1000000000

\* the boundaries, times and swarm indices the engine writes
Boundaries == {1, 2}
Times == {0, 1, 2}
SwarmIndices == {0, 1}
\* the code's next_start_time = 1e99: later than every time of a log
NO_RESTART == 1 + CHOOSE t \in Times : \A u \in Times : u <= t
\* the windows tried by the callers
WindowTimes == {None, 1}

\* A record of a log file, as split at line 102: the boundary bounced on and
\* the time.  bounce_index (line 105) is only printed and is left out.  The
\* field file is bookkeeping: the index of the file the record was read
\* from; no operator of the reader looks at it.
Line(b, t, f) == [dest_boundary |-> b, dest_time |-> t, file |-> f]
NEW_SWARM == [dest_boundary |-> None, dest_time |-> None, file |-> None]

\* ------------------------------------------------------------ dict helpers
EmptyDict == <<>>
Get(d, k, default) == IF k \in DOMAIN d THEN d[k] ELSE default
Put(d, k, v) == [x \in (DOMAIN d) \cup {k} |-> IF x = k THEN v ELSE d[x]]

RECURSIVE SeqSum(_)
SeqSum(s) == IF Len(s) = 0 THEN 0 ELSE Head(s) + SeqSum(Tail(s))

Last(s) == s[Len(s)]
Front(s) == SubSeq(s, 1, Len(s) - 1)

\* The integers of the set S in ascending order.
RECURSIVE Ascending(_)
Ascending(S) ==
    IF S = {} THEN <<>>
    ELSE LET least == CHOOSE x \in S : \A y \in S : x <= y
         IN <<least>> \o Ascending(S \ {least})

\* ---------------------------------------------------------------- reading
\* Lines 88-119: read every file into file_lines, with a NEW_SWARM marker in
\* front when the name holds a swarm index other than the current one.
RECURSIVE ReadFiles(_, _, _, _, _)
ReadFiles(ofl, i, swarm_index, files_lines, start_times) ==
    IF i > Len(ofl)
    THEN [files_lines |-> files_lines, start_times |-> start_times]
    ELSE LET f == ofl[i]
             new_index == IF f.swarm # None THEN f.swarm ELSE swarm_index
             marker == IF f.swarm # None /\ f.swarm # swarm_index
                       THEN <<NEW_SWARM>> ELSE <<>>
             file_lines == marker \o
                 [k \in 1..Len(f.lines) |->
                     Line(f.lines[k].dest_boundary, f.lines[k].dest_time, i)]
             start_time == IF Len(f.lines) = 0 THEN 0
                           ELSE f.lines[1].dest_time
         IN IF Len(file_lines) = 0
            THEN ReadFiles(ofl, i + 1, new_index, files_lines, start_times)
            ELSE ReadFiles(ofl, i + 1, new_index,
                           Append(files_lines, file_lines),
                           Append(start_times, start_time))

\* Line 144: the test of the trimming loop.
AfterRestart_Late(dest_time, next_start_time) ==
    dest_time > next_start_time + 1

AfterRestart(dest_time, next_start_time) == dest_time > next_start_time

\* Lines 144-152: pop the records of a file that lie after the start of the
\* next file.  file_lines[-1] of an emptied list raises IndexError.
RECURSIVE TrimLoop(_, _, _)
TrimLoop(file_lines, next_start_time, counter) ==
    IF ~AfterRestart(Last(file_lines).dest_time, next_start_time)
    THEN [status |-> "ok", file_lines |-> file_lines]
    ELSE LET popped == Front(file_lines)
         IN IF Len(popped) = 0
            THEN [status |-> "IndexError", file_lines |-> popped]
            ELSE LET rest == IF Last(popped) = NEW_SWARM
                             THEN Front(popped) ELSE popped
                 IN IF counter > MAX_ITER \/ Len(rest) = 0
                    THEN [status |-> "ok", file_lines |-> rest]
                    ELSE TrimLoop(rest, next_start_time, counter + 1)

\* Lines 127-135: the start of the next file, unless that file opens a swarm.
NextStartTime(files_lines, start_times, i) ==
    IF i < Len(files_lines)
    THEN IF files_lines[i + 1][1] = NEW_SWARM
         THEN NO_RESTART ELSE start_times[i + 1]
    ELSE NO_RESTART

\* Lines 123-152 for one file (the restart check is on, the file not empty).
TrimFile(files_lines, start_times, i) ==
    LET file_lines == files_lines[i]
        unmarked == IF Last(file_lines) = NEW_SWARM
                    THEN Front(file_lines) ELSE file_lines
    IN IF Len(unmarked) = 0
       THEN [status |-> "ok", file_lines |-> unmarked]
       ELSE TrimLoop(unmarked, NextStartTime(files_lines, start_times, i), 0)

\* Lines 121-154: lines is the concatenation of the (trimmed) files.
RECURSIVE MergeFiles(_, _, _, _, _)
MergeFiles(files_lines, start_times, skip_restart_check, i, lines) ==
    IF i > Len(files_lines)
    THEN [status |-> "ok", lines |-> lines]
    ELSE IF ~skip_restart_check /\ Len(files_lines[i]) # 0
         THEN LET t == TrimFile(files_lines, start_times, i)
              IN IF t.status # "ok"
                 THEN [status |-> t.status, lines |-> lines]
                 ELSE MergeFiles(files_lines, start_times, skip_restart_check,
                                 i + 1, lines \o t.file_lines)
         ELSE MergeFiles(files_lines, start_times, skip_restart_check,
                         i + 1, lines \o files_lines[i])

\* existing_lines is None or a list: <<>> stands for None and <<l>> for the
\* list l.
NoList == <<>>
AList(lines) == <<lines>>

\* Lines 84-157: the lines the statistics are computed from.
GatherLines(ofl, existing_lines, skip_restart_check) ==
    IF existing_lines = NoList
    THEN LET r == ReadFiles(ofl, 1, 0, <<>>, <<>>)
         IN MergeFiles(r.files_lines, r.start_times, skip_restart_check,
                       1, <<>>)
    ELSE [status |-> "ok", lines |-> existing_lines[1]]

\* ------------------------------------------------------------- processing
\* The running state of the loop of lines 163-226.
InitialRun ==
    [status |-> "ok", stopped |-> FALSE,
     N_i_j_alpha |-> EmptyDict, R_i_alpha_list |-> EmptyDict,
     N_alpha_beta |-> EmptyDict, T_alpha_list |-> <<>>,
     last_bounce_time |-> -1, src_boundary |-> None, src_time |-> None]

\* Lines 172-180: a NEW_SWARM marker resets the running state.
SwarmReset(s) ==
    [s EXCEPT !.last_bounce_time = -1, !.src_boundary = None,
              !.src_time = None]

\* Lines 196-200: the first record of a swarm is only the time reference.
FirstBounce_Counted(s, line) ==
    [s EXCEPT !.src_boundary = line.dest_boundary,
              !.src_time = line.dest_time,
              !.last_bounce_time = line.dest_time,
              !.N_alpha_beta = Put(@, line.dest_boundary,
                                   Get(@, line.dest_boundary, 0) + 1)]

FirstBounce(s, line) ==
    [s EXCEPT !.src_boundary = line.dest_boundary,
              !.src_time = line.dest_time,
              !.last_bounce_time = line.dest_time]

\* Lines 209-212: count the transition and its incubation time.
RecordTransition_UnderDestination(s, line) ==
    LET key == <<s.src_boundary, line.dest_boundary>>
    IN [s EXCEPT
          !.N_i_j_alpha = Put(@, key, Get(@, key, 0) + 1),
          !.R_i_alpha_list =
              Put(@, line.dest_boundary,
                  Append(Get(@, line.dest_boundary, <<>>),
                         line.dest_time - s.src_time)),
          !.src_boundary = line.dest_boundary,
          !.src_time = line.dest_time]

RecordTransition(s, line) ==
    LET key == <<s.src_boundary, line.dest_boundary>>
    IN [s EXCEPT
          !.N_i_j_alpha = Put(@, key, Get(@, key, 0) + 1),
          !.R_i_alpha_list =
              Put(@, s.src_boundary,
                  Append(Get(@, s.src_boundary, <<>>),
                         line.dest_time - s.src_time)),
          !.src_boundary = line.dest_boundary,
          !.src_time = line.dest_time]

\* Line 216: the assertion on the time between two bounces.
BounceTimeAsserted_OnlyWithRestartCheck(s, line, skip_restart_check) ==
    skip_restart_check \/ line.dest_time - s.last_bounce_time >= 0

BounceTimeAsserted(s, line, skip_restart_check) ==
    line.dest_time - s.last_bounce_time >= 0

\* Lines 202-226: a record after the first one.
Bounce(s, line, skip_restart_check) ==
    LET changed == s.src_boundary # line.dest_boundary
        time_diff == line.dest_time - s.src_time
        s1 == IF changed THEN RecordTransition(s, line) ELSE s
    IN IF changed /\ ~skip_restart_check /\ ~(time_diff >= 0)
       THEN [s EXCEPT !.status = "AssertionError"]
       ELSE IF ~BounceTimeAsserted(s, line, skip_restart_check)
            THEN [s1 EXCEPT !.status = "AssertionError"]
            ELSE [s1 EXCEPT
                   !.N_alpha_beta =
                       Put(@, line.dest_boundary,
                           Get(@, line.dest_boundary, 0) + 1),
                   !.T_alpha_list =
                       Append(@, line.dest_time - s.last_bounce_time),
                   !.last_bounce_time = line.dest_time]

\* Lines 171-226: one iteration of the loop.
ProcessLine(s, line, min_time, max_time, skip_restart_check) ==
    IF line = NEW_SWARM THEN SwarmReset(s)
    ELSE IF min_time # None /\ line.dest_time < min_time THEN s
    ELSE IF max_time # None /\ line.dest_time > max_time
         THEN [s EXCEPT !.stopped = TRUE]
    ELSE IF s.src_boundary = None THEN FirstBounce(s, line)
    ELSE Bounce(s, line, skip_restart_check)

RECURSIVE ProcessLines(_, _, _, _, _, _)
ProcessLines(s, lines, k, min_time, max_time, skip_restart_check) ==
    IF k > Len(lines) \/ s.stopped \/ s.status # "ok" THEN s
    ELSE ProcessLines(
             ProcessLine(s, lines[k], min_time, max_time, skip_restart_check),
             lines, k + 1, min_time, max_time, skip_restart_check)

\* Lines 228-249: the totals, and the fallback when no boundary changed.
Finish(s, lines) ==
    LET T_alpha_total == SeqSum(s.T_alpha_list)
        totals == [key \in DOMAIN s.R_i_alpha_list |->
                      SeqSum(s.R_i_alpha_list[key])]
        fallback == DOMAIN s.R_i_alpha_list = {}
    IN [status |-> "ok",
        N_i_j_alpha |-> s.N_i_j_alpha,
        R_i_alpha_list |-> IF fallback
                           THEN Put(EmptyDict, s.src_boundary, s.T_alpha_list)
                           ELSE s.R_i_alpha_list,
        R_i_alpha_total |-> IF fallback
                            THEN Put(EmptyDict, s.src_boundary, T_alpha_total)
                            ELSE totals,
        N_alpha_beta |-> s.N_alpha_beta,
        T_alpha_list |-> s.T_alpha_list,
        T_alpha_total |-> T_alpha_total,
        lines |-> lines]

\* A call that raised returns nothing; lines keeps the local list the
\* exception interrupted, for the properties that speak of the merged list.
Raised(exception, lines) ==
    [status |-> exception,
     N_i_j_alpha |-> EmptyDict, R_i_alpha_list |-> EmptyDict,
     R_i_alpha_total |-> EmptyDict, N_alpha_beta |-> EmptyDict,
     T_alpha_list |-> <<>>, T_alpha_total |-> None, lines |-> lines]

NotCalled == Raised("none", <<>>)

\* Lines 74-249.
openmm_read_output_file_list(ofl, min_time, max_time, existing_lines, skip_restart_check) ==
    LET g == GatherLines(ofl, existing_lines, skip_restart_check)
    IN IF g.status # "ok" THEN Raised(g.status, <<>>)
       ELSE LET s == ProcessLines(InitialRun, g.lines, 1, min_time, max_time,
                                  skip_restart_check)
            IN IF s.status # "ok" THEN Raised(s.status, g.lines)
               ELSE Finish(s, g.lines)

\* ------------------------------------------------- MMVT_anchor_statistics
\* Lines 612-627: the object before any read.  status is bookkeeping: how
\* the last call of read_output_file_list ended.
NewStatistics ==
    [status |-> "none",
     N_i_j_alpha |-> EmptyDict, R_i_alpha_list |-> EmptyDict,
     R_i_alpha_total |-> EmptyDict, N_alpha_beta |-> EmptyDict,
     T_alpha_list |-> <<>>, T_alpha_total |-> None,
     k_alpha_beta |-> EmptyDict, existing_lines |-> NoList]

\* Lines 655-656: the rate towards every neighbor of the latest
\* N_alpha_beta; the quotient N / T is kept as the pair <<N, T>>.
UpdateRates(k_alpha_beta, N_alpha_beta, T_alpha_total) ==
    [key \in (DOMAIN k_alpha_beta) \cup (DOMAIN N_alpha_beta) |->
        IF key \in DOMAIN N_alpha_beta
        THEN <<N_alpha_beta[key], T_alpha_total>>
        ELSE k_alpha_beta[key]]

\* Lines 629-662 for engine "openmm".  A call that raises inside the reader
\* assigns nothing.  T_alpha_total is a numpy float (line 239), so a division
\* by T_alpha_total = 0 does not raise: the rate <<N, 0>> is numpy's inf.
read_output_file_list_Accumulating(self, ofl, min_time, max_time) ==
    LET r == openmm_read_output_file_list(ofl, min_time, max_time,
                                          self.existing_lines, FALSE)
        assigned == [self EXCEPT
                       !.N_i_j_alpha = r.N_i_j_alpha,
                       !.R_i_alpha_list = r.R_i_alpha_list,
                       !.R_i_alpha_total = r.R_i_alpha_total,
                       !.N_alpha_beta = r.N_alpha_beta,
                       !.T_alpha_list = @ \o r.T_alpha_list,
                       !.T_alpha_total = r.T_alpha_total,
                       !.existing_lines = AList(r.lines),
                       !.k_alpha_beta = UpdateRates(@, r.N_alpha_beta,
                                                    r.T_alpha_total)]
    IN IF r.status # "ok" THEN [self EXCEPT !.status = r.status]
       ELSE IF ~(r.T_alpha_total >= 0)
            THEN [assigned EXCEPT !.status = "AssertionError"]
            ELSE [assigned EXCEPT !.status = "ok"]

read_output_file_list(self, ofl, min_time, max_time) ==
    LET r == openmm_read_output_file_list(ofl, min_time, max_time,
                                          self.existing_lines, FALSE)
        assigned == [self EXCEPT
                       !.N_i_j_alpha = r.N_i_j_alpha,
                       !.R_i_alpha_list = r.R_i_alpha_list,
                       !.R_i_alpha_total = r.R_i_alpha_total,
                       !.N_alpha_beta = r.N_alpha_beta,
                       !.T_alpha_list = r.T_alpha_list,
                       !.T_alpha_total = r.T_alpha_total,
                       !.existing_lines = AList(r.lines),
                       !.k_alpha_beta = UpdateRates(@, r.N_alpha_beta,
                                                    r.T_alpha_total)]
    IN IF r.status # "ok" THEN [self EXCEPT !.status = r.status]
       ELSE IF ~(r.T_alpha_total >= 0)
            THEN [assigned EXCEPT !.status = "AssertionError"]
            ELSE [assigned EXCEPT !.status = "ok"]

\* ------------------------------------------ monte_carlo_milestoning_error
\* Lines 1094-1097: the defaults of skip and stride.
DefaultSkip(n_milestones) == 10 * n_milestones * n_milestones
DefaultStride(n_milestones) == n_milestones * n_milestones

\* Line 1114: the number of chain steps.
TotalMoves(n, sk, st) == n * st + sk

\* Lines 1138 and 1146: the steps whose sample is kept.
Retained_FromSkip(c, sk, st) == c >= sk /\ c % st = 0

Retained(c, sk, st) == c > sk /\ c % st = 0

\* The random matrices of the chain are told apart by the step that drew
\* them.  Lines 1099-1101: those of make_mcmc_quantities, from the main data
\* sample, are the ones the chain starts with.
MAIN == -1

\* Lines 1119-1121 and 1129-1132: the matrices
\* irreversible_stochastic_matrix_algorithm_sample draws at step c.
Sampled_At(c) == c

\* Lines 1133-1134: the counts of an anchor are made by make_new_Nij_alpha
\* from mmvt_Qij_alpha[alpha], the matrix the step began with;
\* mmvt_Qnew_alpha, drawn in the step, goes to mmvt_Qnew_list only.
NijSource(Qij_alpha, Qnew_alpha) == Qij_alpha

\* Lines 1123-1124 and 1138-1141: the Q of a kept sample is assembled by
\* mmvt_Q_N_R from mmvt_Nij_list and from the pi_alpha that calculate_pi_alpha
\* made of the anchor rates drawn in the step.
NewQ(Qij_alpha, c) ==
    [mmvt_Nij_list |-> NijSource(Qij_alpha, Sampled_At(c)),
     pi_alpha |-> Sampled_At(c)]

\* ------------------------------------------------------- numpy arithmetic
\* A numpy float is the exact quotient <<n, d>> of two integers, rounding
\* left out: a non-zero number has d > 0 and n and d coprime, the zeros are
\* <<0, 1>> and <<0, -1>> (-0.0), the infinities <<1, 0>> and <<-1, 0>>, and
\* nan is <<0, 0>>.  Division by zero follows numpy: it warns and gives inf
\* or nan, it does not raise.
NaN == <<0, 0>>
Inf == <<1, 0>>
Zero == <<0, 1>>
One == <<1, 1>>

Sgn(x) == IF x > 0 THEN 1 ELSE IF x < 0 THEN -1 ELSE 0
Mag(x) == IF x < 0 THEN -x ELSE x

RECURSIVE GCD(_, _)
GCD(a, b) == IF b = 0 THEN a ELSE GCD(b, a % b)

IsNaN(a) == a = NaN
IsZero(a) == a[1] = 0 /\ a[2] # 0
IsInf(a) == a[1] # 0 /\ a[2] = 0
IsFinite(a) == a[2] # 0
SignOf(a) == IF a[1] # 0 THEN Sgn(a[1]) ELSE Sgn(a[2])

\* The float of sign sg and magnitude n / d, for n >= 0 and d >= 0.
Signed(sg, n, d) ==
    IF n = 0 /\ d = 0 THEN NaN
    ELSE IF n = 0 THEN <<0, sg>>
    ELSE IF d = 0 THEN <<sg, 0>>
    ELSE <<sg * (n \div GCD(n, d)), d \div GCD(n, d)>>

Float(n) == Signed(IF n < 0 THEN -1 ELSE 1, Mag(n), 1)
Quotient(n, d) == Signed((IF n < 0 THEN -1 ELSE 1) * (IF d < 0 THEN -1 ELSE 1),
                         Mag(n), Mag(d))

FNeg(a) == IF IsNaN(a) THEN NaN ELSE Signed(-SignOf(a), Mag(a[1]), Mag(a[2]))
FAbs(a) == IF IsNaN(a) THEN NaN ELSE Signed(1, Mag(a[1]), Mag(a[2]))

FMul(a, b) ==
    IF IsNaN(a) \/ IsNaN(b) THEN NaN
    ELSE Signed(SignOf(a) * SignOf(b), Mag(a[1]) * Mag(b[1]),
                Mag(a[2]) * Mag(b[2]))

\* 1 / a, also a ** -1.
FInv(a) == IF IsNaN(a) THEN NaN ELSE Signed(SignOf(a), Mag(a[2]), Mag(a[1]))
FDiv(a, b) == FMul(a, FInv(b))

FAdd(a, b) ==
    IF IsNaN(a) \/ IsNaN(b) THEN NaN
    ELSE IF IsInf(a) /\ IsInf(b) THEN (IF a = b THEN a ELSE NaN)
    ELSE IF IsInf(a) THEN a
    ELSE IF IsInf(b) THEN b
    ELSE LET n == a[1] * Mag(b[2]) + b[1] * Mag(a[2])
         IN IF n = 0
            THEN (IF IsZero(a) /\ IsZero(b) /\ a[2] < 0 /\ b[2] < 0
                  THEN <<0, -1>> ELSE Zero)
            ELSE Signed(Sgn(n), Mag(n), Mag(a[2]) * Mag(b[2]))

FSub(a, b) == FAdd(a, FNeg(b))

\* Comparisons; every comparison with nan is false.
FGe0(a) == ~IsNaN(a) /\ a[1] >= 0
FGt0(a) == ~IsNaN(a) /\ a[1] > 0
FEq(a, b) ==
    /\ ~IsNaN(a) /\ ~IsNaN(b)
    /\ (a = b \/ (IsZero(a) /\ IsZero(b)))

\* -------------------------------------------------------------- the model
\* A model is its anchors 0 .. num_anchors - 1 with their bulkstate flags.
\* The anchors of a one-dimensional model form a chain: the milestones of
\* anchor a lead to the anchors a - 1 and a + 1 (mmvt_cv.py, lines 32-62),
\* and the milestone between the anchors i and i + 1 has index i.
Anchors(model) == 0..(model.num_anchors - 1)
Milestones(model) == 0..(model.num_anchors - 2)
BulkAnchors(model) == {a \in Anchors(model) : model.bulkstate[a]}

\* anchor1.alias_from_neighbor_id(anchor2.index) is not None.
HasNeighbor(anchor1, anchor2) == Mag(anchor1 - anchor2) = 1

\* len(anchor.milestones) == 1 (line 844).
DeadEnd(model, alpha) ==
    Cardinality({beta \in Anchors(model) : HasNeighbor(alpha, beta)}) = 1

\* ------------------------------------------------------- MMVT_data_sample
\* The flux of line 855 from the bulk anchor into a neighbor, 1e30 in the
\* code, scaled to what 32-bit integers hold.
BULK_FLUX == 1000

\* The function f on S with every value computed, once.
RECURSIVE Computed(_, _)
Computed(f, S) ==
    IF S = {} THEN <<>>
    ELSE LET x == CHOOSE y \in S : TRUE
         IN (x :> f[x]) @@ Computed(f, S \ {x})

\* The sum of the floats f[x] for x in the ascending integer set S.
RECURSIVE FSum(_, _)
FSum(f, S) ==
    IF S = {} THEN Zero
    ELSE LET last == CHOOSE x \in S : \A y \in S : y <= x
         IN FAdd(FSum(f, S \ {last}), f[last])

\* Lines 846-876: column_sum[alpha], the rates of the non-bulk anchor alpha
\* to its non-bulk neighbors; k_alpha_beta is a defaultdict.
ColumnSum(model, k_alpha_beta, alpha) ==
    LET betas == {beta \in Anchors(model) :
                     /\ ~model.bulkstate[beta]
                     /\ beta # alpha
                     /\ HasNeighbor(alpha, beta)}
    IN FSum([beta \in betas |-> Get(k_alpha_beta, <<alpha, beta>>, Zero)],
            betas)

\* Lines 831-878: the flux matrix after the loop over alpha.
FluxMatrix(model, k_alpha_beta) ==
    Computed(
        [alpha \in Anchors(model), beta \in Anchors(model) |->
            IF model.bulkstate[alpha]
            THEN IF alpha = beta THEN One
                 ELSE IF model.bulkstate[beta] THEN Zero
                 ELSE IF HasNeighbor(beta, alpha) THEN Float(BULK_FLUX)
                 ELSE Zero
            ELSE IF model.bulkstate[beta] THEN One
            ELSE IF alpha = beta
                 THEN FNeg(ColumnSum(model, k_alpha_beta, alpha))
            ELSE IF HasNeighbor(alpha, beta)
                 THEN Get(k_alpha_beta, <<alpha, beta>>, Zero)
            ELSE Zero],
        Anchors(model) \X Anchors(model))

\* The determinant of the rows and columns of A listed in rows and cols.
Without(s, c) == SubSeq(s, 1, c - 1) \o SubSeq(s, c + 1, Len(s))

RECURSIVE Det(_, _, _)
Det(A, rows, cols) ==
    IF Len(rows) = 0 THEN One
    ELSE LET term(c) ==
                 LET minor == FMul(A[rows[1], cols[c]],
                                   Det(A, Tail(rows), Without(cols, c)))
                 IN IF c % 2 = 1 THEN minor ELSE FNeg(minor)
         IN FSum([c \in 1..Len(cols) |-> term(c)], 1..Len(cols))

Indices(n) == [i \in 1..n |-> i - 1]

\* scipy.linalg.solve(A, b) for an n x n matrix A: the solution x of
\* A x = b; "ValueError" for an entry that is inf or nan, "LinAlgError" for
\* a singular matrix.
Solve(A, b, n) ==
    LET idx == Indices(n)
        det == Det(A, idx, idx)
        replaced(c) == [i \in 0..(n - 1), j \in 0..(n - 1) |->
                           IF j = c THEN b[i] ELSE A[i, j]]
    IN IF \E i, j \in 0..(n - 1) : ~IsFinite(A[i, j])
       THEN [status |-> "ValueError", x |-> <<>>]
       ELSE IF IsZero(det) THEN [status |-> "LinAlgError", x |-> <<>>]
       ELSE [status |-> "ok",
             x |-> Computed([c \in 0..(n - 1) |->
                                FDiv(Det(replaced(c), idx, idx), det)],
                            0..(n - 1))]

\* Lines 17 and 893.
FLUX_MATRIX_K_EXPONENT == 1000

\* Lines 19-32: K over the first M.shape[0] - 1 anchors, and whether every
\* entry passes the assertion of line 30.
flux_matrix_to_K(M, n) ==
    LET K == Computed([i \in 0..(n - 2), j \in 0..(n - 2) |->
                          IF i = j THEN Zero
                          ELSE FDiv(FNeg(M[i, j]), M[i, i])],
                      (0..(n - 2)) \X (0..(n - 2)))
    IN [status |-> IF \A i, j \in 0..(n - 2) : FGe0(K[i, j])
                   THEN "ok" ELSE "AssertionError",
        K |-> K]

MatMul(A, B, m) ==
    Computed([i \in 0..(m - 1), j \in 0..(m - 1) |->
                 FSum([k \in 0..(m - 1) |-> FMul(A[i, k], B[k, j])],
                      0..(m - 1))],
             (0..(m - 1)) \X (0..(m - 1)))

\* numpy.linalg.matrix_power(A, e) for e >= 1, by repeated squaring.
Square(A, m) == MatMul(A, A, m)
SquareTimes(half, A, e, m) ==
    IF DOMAIN half = {} THEN half
    ELSE IF e % 2 = 0 THEN Square(half, m)
    ELSE MatMul(Square(half, m), A, m)

RECURSIVE MatrixPower(_, _, _)
MatrixPower(A, e, m) ==
    IF e = 1 THEN A ELSE SquareTimes(MatrixPower(A, e \div 2, m), A, e, m)

\* What calculate_pi_alpha leaves in self.pi_alpha, with how it ended.
PiAlpha(status, pi_alpha) == [status |-> status, pi_alpha |-> pi_alpha]

\* Lines 886-898: the refinement of the solution of the flux equations.
Refined(flux_matrix, pi_alpha, K_inf, n) ==
    LET pi_alpha_slice ==
            [i \in 0..(n - 2) |-> FMul(FNeg(pi_alpha[i]), flux_matrix[i, i])]
        stationary_dist ==
            [i \in 0..(n - 2) |->
                FSum([j \in 0..(n - 2) |->
                         FMul(K_inf[j, i], pi_alpha_slice[j])], 0..(n - 2))]
        refined == [i \in 0..(n - 1) |->
                       IF i = n - 1 THEN Zero
                       ELSE FDiv(FNeg(stationary_dist[i]), flux_matrix[i, i])]
        total == FSum(refined, 0..(n - 1))
    IN Computed([i \in 0..(n - 1) |-> FDiv(refined[i], total)], 0..(n - 1))

RefinePiAlpha(flux_matrix, pi_alpha, K, n) ==
    Refined(flux_matrix, pi_alpha,
            MatrixPower(K, FLUX_MATRIX_K_EXPONENT, n - 1), n)

\* Lines 892-898, once the solution of the flux equations is known.
RefineSolved(flux_matrix, pi_alpha, K, n) ==
    IF K.status # "ok" THEN PiAlpha(K.status, AList(pi_alpha))
    ELSE PiAlpha("ok", AList(RefinePiAlpha(flux_matrix, pi_alpha, K.K, n)))

\* Lines 884-898, once the flux equations are solved or found unsolvable.
AbsSolved(flux_matrix, solved, model) ==
    IF solved.status # "ok"
    THEN PiAlpha(solved.status, AList([alpha \in Anchors(model) |-> Zero]))
    ELSE RefineSolved(flux_matrix,
                      Computed([alpha \in Anchors(model) |->
                                   FAbs(solved.x[alpha])], Anchors(model)),
                      flux_matrix_to_K(flux_matrix, model.num_anchors),
                      model.num_anchors)

\* Lines 880-898, for the flux matrix of a model with one bulk anchor.
SolveFlux(flux_matrix, model, bulk_index) ==
    AbsSolved(flux_matrix,
              Solve([i \in Anchors(model), j \in Anchors(model) |->
                        flux_matrix[j, i]],
                    [alpha \in Anchors(model) |->
                        IF alpha = bulk_index THEN One ELSE Zero],
                    model.num_anchors),
              model)

\* Lines 819-899.  self_pi_alpha is the attribute before the call; the
\* optional values None are NoList.  The assertions of lines 837 and 880
\* leave the zeros of line 830 in self.pi_alpha.
calculate_pi_alpha_FirstBulk(self_pi_alpha, model, k_alpha_beta) ==
    IF k_alpha_beta = NoList THEN PiAlpha("Exception", self_pi_alpha)
    ELSE IF Cardinality(BulkAnchors(model)) = 0
    THEN PiAlpha("AssertionError", AList([alpha \in Anchors(model) |-> Zero]))
    ELSE SolveFlux(FluxMatrix(model, k_alpha_beta[1]), model,
                   CHOOSE alpha \in BulkAnchors(model) :
                       \A beta \in BulkAnchors(model) : alpha <= beta)

calculate_pi_alpha(self_pi_alpha, model, k_alpha_beta) ==
    IF k_alpha_beta = NoList THEN PiAlpha("Exception", self_pi_alpha)
    ELSE IF Cardinality(BulkAnchors(model)) # 1
    THEN PiAlpha("AssertionError", AList([alpha \in Anchors(model) |-> Zero]))
    ELSE SolveFlux(FluxMatrix(model, k_alpha_beta[1]), model,
                   CHOOSE alpha \in BulkAnchors(model) : TRUE)

\* The keys of a dict in the order the loops of fill_out_data_quantities
\* take them, here ascending: milestone pairs (i, j), and milestones i.
PairKeys(model, d) ==
    LET m == model.num_anchors - 1
        code(key) == key[1] * m + key[2]
        at == Ascending({code(key) : key \in DOMAIN d})
    IN [n \in 1..Len(at) |-> <<at[n] \div m, at[n] % m>>]

\* Lines 916-923: T, the inverse of the sum of pi_alpha / T_alpha over the
\* non-bulk anchors.
TotalTime(model, pi_alpha, T_alpha) ==
    LET nonbulk == Anchors(model) \ BulkAnchors(model)
    IN FInv(FSum([alpha \in nonbulk |-> FDiv(pi_alpha[alpha], T_alpha[alpha])],
                 nonbulk))

\* Lines 932 and 944: the contribution of anchor alpha for a count or time.
Contribution_Unweighted(T, pi_alpha, T_alpha, alpha, value) ==
    FMul(FDiv(T, T_alpha[alpha]), value)

Contribution(T, pi_alpha, T_alpha, alpha, value) ==
    FMul(FMul(FDiv(T, T_alpha[alpha]), pi_alpha[alpha]), value)

\* Lines 936-943 and 950-958: the assertions before a contribution is added.
ContributionAsserted(T, pi_alpha, T_alpha, alpha, value) ==
    /\ FGt0(FDiv(T, T_alpha[alpha]))
    /\ FGe0(pi_alpha[alpha])
    /\ FGt0(value)

\* Lines 925-963 as the list of steps the loops make, in order.
AssemblySteps(model, N_i_j_alpha, R_i_alpha) ==
    LET RECURSIVE Steps(_)
        Steps(alpha) ==
            IF alpha >= model.num_anchors THEN <<>>
            ELSE IF model.bulkstate[alpha] THEN Steps(alpha + 1)
            ELSE LET Nkeys == PairKeys(model, N_i_j_alpha[alpha])
                     Rkeys == Ascending(DOMAIN R_i_alpha[alpha])
                 IN <<[kind |-> "T_alpha", alpha |-> alpha, key |-> <<>>]>>
                    \o [n \in 1..Len(Nkeys) |->
                           [kind |-> "N", alpha |-> alpha, key |-> Nkeys[n]]]
                    \o (IF Len(Rkeys) = 0
                        THEN <<[kind |-> "unset", alpha |-> alpha,
                                key |-> <<>>]>>
                        ELSE [n \in 1..Len(Rkeys) |->
                                 [kind |-> "R", alpha |-> alpha,
                                  key |-> <<Rkeys[n]>>]])
                    \o Steps(alpha + 1)
    IN Steps(0)

\* One step of lines 925-963 on the running state q.
AssemblyStep(q, step, pi_alpha, T_alpha, N_i_j_alpha, R_i_alpha) ==
    LET alpha == step.alpha
        value == IF step.kind = "N"
                 THEN Float(N_i_j_alpha[alpha][step.key])
                 ELSE R_i_alpha[alpha][step.key[1]]
        added == Contribution(q.T, pi_alpha, T_alpha, alpha, value)
    IN IF step.kind = "T_alpha"
       THEN (IF FGe0(T_alpha[alpha]) THEN q
             ELSE [q EXCEPT !.status = "AssertionError"])
       ELSE IF step.kind = "unset" THEN [q EXCEPT !.status = "Exception"]
       ELSE IF ~ContributionAsserted(q.T, pi_alpha, T_alpha, alpha, value)
            THEN [q EXCEPT !.status = "AssertionError"]
       ELSE IF step.kind = "N"
            THEN [q EXCEPT
                    !.N_ij = Put(@, step.key,
                                 FAdd(Get(@, step.key, Zero), added)),
                    !.added = Append(@, added)]
       ELSE [q EXCEPT
               !.R_i = Put(@, step.key[1],
                           FAdd(Get(@, step.key[1], Zero), added)),
               !.added = Append(@, added)]

\* Lines 901-965.  added lists the contributions in the order they were
\* accumulated.
fill_out_data_quantities(model, pi_alpha, T_alpha, N_i_j_alpha, R_i_alpha) ==
    LET T == TotalTime(model, pi_alpha, T_alpha)
        start == [status |-> "ok", T |-> T, N_ij |-> EmptyDict,
                  R_i |-> EmptyDict, added |-> <<>>]
        steps == AssemblySteps(model, N_i_j_alpha, R_i_alpha)
        RECURSIVE Run(_, _)
        Run(q, k) ==
            IF k > Len(steps) \/ q.status # "ok" THEN q
            ELSE Run(AssemblyStep(q, steps[k], pi_alpha, T_alpha,
                                  N_i_j_alpha, R_i_alpha), k + 1)
    IN IF ~FGe0(T) THEN [start EXCEPT !.status = "AssertionError"]
       ELSE Run(start, 1)

\* Lines 804-808: N_alpha gets one entry per non-bulk anchor but is indexed
\* by the anchor's index, so the sum of the counts of an anchor that comes
\* after a bulk anchor raises IndexError.
NAlphaIndexed(model, N_i_j_alpha) ==
    \A alpha \in Anchors(model) \ BulkAnchors(model) :
        \/ DOMAIN N_i_j_alpha[alpha] = {}
        \/ \A beta \in BulkAnchors(model) : alpha < beta

\* The square matrix of m rows with the given entries, computed once.
Matrix(entries, m) == Computed(entries, (0..(m - 1)) \X (0..(m - 1)))

\* The sum of the off-diagonal entries of row i of the matrix A of m rows.
OffDiagonalSum(A, i, m) ==
    FSum([j \in (0..(m - 1)) \ {i} |-> A[i, j]], (0..(m - 1)) \ {i})

\* Lines 974-989: k_alpha_beta_matrix.
AnchorRateMatrix(model, k_alpha_beta) ==
    LET rate(alpha, beta) ==
            IF model.bulkstate[alpha] \/ alpha = beta THEN Zero
            ELSE Get(k_alpha_beta, <<alpha, beta>>, Zero)
        off == Matrix([i \in 0..(model.num_anchors - 1), j \in 0..(model.num_anchors - 1) |->
                       rate(i, j)], model.num_anchors)
        entry(alpha, beta) ==
            IF alpha # beta THEN off[alpha, beta]
            ELSE FSub(Zero, OffDiagonalSum(off, alpha, model.num_anchors))
    IN Matrix([i \in 0..(model.num_anchors - 1), j \in 0..(model.num_anchors - 1) |->
               entry(i, j)], model.num_anchors)

\* Lines 1001-1008: the counts and incubation times of one anchor as arrays.
AnchorCountMatrix(N_i_j, m) ==
    LET entry(i, j) == IF <<i, j>> \in DOMAIN N_i_j
                       THEN Float(N_i_j[<<i, j>>]) ELSE Zero
    IN Matrix([i \in 0..(m - 1), j \in 0..(m - 1) |-> entry(i, j)], m)

AnchorTimeVector(R_i, m) ==
    Computed([i \in 0..(m - 1) |-> Get(R_i, i, Zero)], 0..(m - 1))

\* Lines 1010-1017: the rate matrix of one anchor.
AnchorQ_DiagonalUnset(Nij, Ri, m) ==
    LET entry(i, j) == IF i # j /\ FGt0(Ri[i]) THEN FDiv(Nij[i, j], Ri[i])
                       ELSE Zero
    IN Matrix([i \in 0..(m - 1), j \in 0..(m - 1) |-> entry(i, j)], m)

AnchorQ(Nij, Ri, m) ==
    LET rate(i, j) == IF i # j /\ FGt0(Ri[i]) THEN FDiv(Nij[i, j], Ri[i])
                      ELSE Zero
        off == Matrix([i \in 0..(m - 1), j \in 0..(m - 1) |-> rate(i, j)], m)
        entry(i, j) == IF i # j THEN off[i, j]
                       ELSE FSub(Zero, OffDiagonalSum(off, i, m))
    IN Matrix([i \in 0..(m - 1), j \in 0..(m - 1) |-> entry(i, j)], m)

\* Lines 967-1027.  The three lists have one entry per non-bulk anchor, in
\* the order of the anchors.  N_alpha_beta_matrix is left out: the counts
\* N_alpha_beta are no part of the sample modelled here.
make_mcmc_quantities(model, k_alpha_beta, pi_alpha, T_alpha, N_i_j_alpha, R_i_alpha) ==
    LET m == model.num_anchors - 1
        nonbulk == Ascending(Anchors(model) \ BulkAnchors(model))
        Nij(p) == AnchorCountMatrix(N_i_j_alpha[nonbulk[p]], m)
        Ri(p) == AnchorTimeVector(R_i_alpha[nonbulk[p]], m)
        invT == FSum([alpha \in Anchors(model) \ BulkAnchors(model) |->
                         FDiv(pi_alpha[alpha], T_alpha[alpha])],
                     Anchors(model) \ BulkAnchors(model))
    IN [k_alpha_beta_matrix |-> AnchorRateMatrix(model, k_alpha_beta),
        T_alpha_matrix |->
            [alpha \in Anchors(model) |->
                IF model.bulkstate[alpha] THEN Zero ELSE T_alpha[alpha]],
        mmvt_Nij_alpha |-> [p \in 1..Len(nonbulk) |-> Nij(p)],
        mmvt_Ri_alpha |-> [p \in 1..Len(nonbulk) |-> Ri(p)],
        mmvt_Qij_alpha |-> [p \in 1..Len(nonbulk) |-> AnchorQ(Nij(p), Ri(p), m)],
        T |-> FInv(invT)]

\* Lines 61-72.
make_new_Nij_alpha(mmvt_Qij_alpha, mmvt_Ri_alpha, n_milestones) ==
    LET entry(i, j) == IF i = j THEN Zero
                       ELSE FMul(mmvt_Qij_alpha[i, j], mmvt_Ri_alpha[i])
    IN Matrix([i \in 0..(n_milestones - 1), j \in 0..(n_milestones - 1) |->
               entry(i, j)], n_milestones)

\* Lines 34-59.  The lists N_i_j_alpha and R_i_alpha_total are read at
\* position alpha + 1, T_alpha_total and pi_alpha at the index alpha.
mmvt_Q_N_R(n_milestones, n_anchors, N_i_j_alpha, R_i_alpha_total, T_alpha_total, T, pi_alpha) ==
    LET weighted(alpha, value) ==
            FDiv(FMul(FMul(T, pi_alpha[alpha]), value), T_alpha_total[alpha])
        count(i, j) ==
            FSum([alpha \in 0..(n_anchors - 1) |->
                     weighted(alpha, N_i_j_alpha[alpha + 1][i, j])],
                 0..(n_anchors - 1))
        mmvt_Nij == Matrix([i \in 0..(n_milestones - 1), j \in 0..(n_milestones - 1) |->
                            count(i, j)], n_milestones)
        mmvt_Ri ==
            Computed([i \in 0..(n_milestones - 1) |->
                         FSum([alpha \in 0..(n_anchors - 1) |->
                                  weighted(alpha,
                                           R_i_alpha_total[alpha + 1][i])],
                              0..(n_anchors - 1))],
                     0..(n_milestones - 1))
        rate(i, j) == IF i # j /\ FGt0(mmvt_Ri[i])
                      THEN FDiv(mmvt_Nij[i, j], mmvt_Ri[i]) ELSE Zero
        off == Matrix([i \in 0..(n_milestones - 1), j \in 0..(n_milestones - 1) |->
                       rate(i, j)], n_milestones)
        entry(i, j) == IF i # j THEN off[i, j]
                       ELSE FNeg(FSum([k \in 0..(n_milestones - 1) |-> off[i, k]],
                                      0..(n_milestones - 1)))
    IN [mmvt_Nij |-> mmvt_Nij, mmvt_Ri |-> mmvt_Ri,
        mmvt_Q |-> Matrix([i \in 0..(n_milestones - 1), j \in 0..(n_milestones - 1) |->
                           entry(i, j)], n_milestones)]

\* ------------------------------------------- namd_read_output_file_list
\* The SEEKR lines of a NAMD output file.  A cell line holds the anchors of
\* a collision and its step; a milestone line the source milestone ("none",
\* written NONE_SRC, in the first one of a run), the destination, the step
\* and the incubation steps.  The field file is bookkeeping, as in Line.
NONE_SRC == None
CellLine(current_anchor_raw, next_anchor_raw, stepnum, f) ==
    [kind |-> "Cell", current_anchor_raw |-> current_anchor_raw,
     next_anchor_raw |-> next_anchor_raw, src |-> None, dest |-> None,
     stepnum |-> stepnum, incubation_steps |-> None, file |-> f]
MilestoneLine(src, dest, stepnum, incubation_steps, f) ==
    [kind |-> "Milestone", current_anchor_raw |-> None,
     next_anchor_raw |-> None, src |-> src, dest |-> dest,
     stepnum |-> stepnum, incubation_steps |-> incubation_steps, file |-> f]

\* Lines 352-377: the SEEKR lines of every file, empty files included.
NamdReadFiles(ofl) ==
    [i \in 1..Len(ofl) |->
        [k \in 1..Len(ofl[i]) |-> [ofl[i][k] EXCEPT !.file = i]]]

\* Lines 383-390: the start of the next file is not looked at; the restart
\* point is 1e99 for every file.
NamdNextStartTime(files_lines, i) == NO_RESTART

\* Lines 400-407: pop while the last step is after the restart point.  The
\* tests of lines 403 and 405 compare the second word of the line with
\* "SEEKR: Cell" and "SEEKR: Milestone" and never hold, so last_stepnum
\* stays; file_lines[-1] of an emptied list raises IndexError.
RECURSIVE NamdTrimLoop(_, _, _, _)
NamdTrimLoop(file_lines, last_stepnum, next_start_time, counter) ==
    IF ~(last_stepnum > next_start_time)
    THEN [status |-> "ok", file_lines |-> file_lines]
    ELSE LET popped == Front(file_lines)
         IN IF Len(popped) = 0
            THEN [status |-> "IndexError", file_lines |-> popped]
            ELSE IF counter > MAX_ITER
                 THEN [status |-> "ok", file_lines |-> popped]
                 ELSE NamdTrimLoop(popped, last_stepnum, next_start_time,
                                   counter + 1)

\* Lines 380-407 for one file: file_lines[-1] of a file without SEEKR lines
\* raises IndexError.
NamdTrimFile(files_lines, i) ==
    IF Len(files_lines[i]) = 0
    THEN [status |-> "IndexError", file_lines |-> <<>>]
    ELSE NamdTrimLoop(files_lines[i], Last(files_lines[i]).stepnum,
                      NamdNextStartTime(files_lines, i), 0)

\* Lines 379-409.
RECURSIVE NamdMergeFiles(_, _, _, _)
NamdMergeFiles(files_lines, skip_restart_check, i, lines) ==
    IF i > Len(files_lines)
    THEN [status |-> "ok", lines |-> lines]
    ELSE IF ~skip_restart_check
         THEN LET t == NamdTrimFile(files_lines, i)
              IN IF t.status # "ok"
                 THEN [status |-> t.status, lines |-> lines]
                 ELSE NamdMergeFiles(files_lines, skip_restart_check, i + 1,
                                     lines \o t.file_lines)
         ELSE NamdMergeFiles(files_lines, skip_restart_check, i + 1,
                             lines \o files_lines[i])

\* Lines 416-421: the running state of the loop.  src_time is not assigned
\* before the loop: UNBOUND until the first "none" milestone line.
UNBOUND == -2
NamdInitialRun ==
    [status |-> "ok", stopped |-> FALSE,
     N_i_j_alpha |-> EmptyDict, R_i_alpha_list |-> EmptyDict,
     N_alpha_beta |-> EmptyDict, T_alpha_list |-> <<>>,
     last_bounce_time |-> -1, alias_src |-> None, src_time |-> UNBOUND]

\* Lines 508-516: the bounce is counted and the time since the last one
\* added.
NamdCount(s, alias_dest, dest_time) ==
    [s EXCEPT
       !.N_alpha_beta = Put(@, alias_dest, Get(@, alias_dest, 0) + 1),
       !.T_alpha_list = Append(@, dest_time - s.last_bounce_time),
       !.last_bounce_time = dest_time]

\* Lines 424-447: a cell line; the last milestone toward the next anchor
\* gives the aliases.
NamdCell(s, line, anchor, dest_time) ==
    LET next_anchor == anchor.index
                       + (line.next_anchor_raw - line.current_anchor_raw)
        toward == {n \in DOMAIN anchor.milestones :
                      anchor.milestones[n].neighbor_anchor_index = next_anchor}
    IN IF toward = {}
       THEN [s EXCEPT !.status = "AssertionError"]
       ELSE LET n == CHOOSE x \in toward : \A y \in toward : y <= x
                alias_dest == anchor.milestones[n].alias_index
            IN NamdCount([s EXCEPT !.alias_src = alias_dest], alias_dest,
                         dest_time)

\* Lines 491-497: the aliases of the source and the destination milestone;
\* the destination is looked up with elif.
NamdAlias(anchor, index, other_than) ==
    LET found == {n \in DOMAIN anchor.milestones :
                     /\ anchor.milestones[n].index = index
                     /\ anchor.milestones[n].index # other_than}
    IN IF found = {} THEN None
       ELSE anchor.milestones[CHOOSE x \in found :
                                  \A y \in found : y <= x].alias_index

\* Lines 449-506: a milestone line.  The "none" line only sets src_time
\* (continue); another line reads src_time.
NamdMilestone(s, line, anchor, timestep, dest_time) ==
    IF line.src = NONE_SRC
    THEN [s EXCEPT !.src_time = dest_time]
    ELSE IF s.src_time = UNBOUND
    THEN [s EXCEPT !.status = "UnboundLocalError"]
    ELSE IF ~(dest_time - s.src_time >= 0)
    THEN [s EXCEPT !.status = "AssertionError"]
    ELSE LET alias_src == NamdAlias(anchor, line.src, None)
             alias_dest == NamdAlias(anchor, line.dest, line.src)
             key == <<alias_src, alias_dest>>
             s1 == [s EXCEPT
                      !.N_i_j_alpha = Put(@, key, Get(@, key, 0) + 1),
                      !.R_i_alpha_list =
                          Put(@, alias_src,
                              Append(Get(@, alias_src, <<>>),
                                     line.incubation_steps * timestep)),
                      !.alias_src = alias_src,
                      !.src_time = dest_time]
         IN NamdCount(s1, alias_dest, dest_time)

\* Lines 423-516: one iteration of the loop.
NamdProcessLine(s, line, anchor, timestep, min_time, max_time) ==
    LET dest_time == line.stepnum * timestep
    IN IF min_time # None /\ dest_time < min_time THEN s
       ELSE IF max_time # None /\ dest_time > max_time
            THEN [s EXCEPT !.stopped = TRUE]
       ELSE IF line.kind = "Cell" THEN NamdCell(s, line, anchor, dest_time)
       ELSE NamdMilestone(s, line, anchor, timestep, dest_time)

RECURSIVE NamdProcessLines(_, _, _, _, _, _, _)
NamdProcessLines(s, lines, k, anchor, timestep, min_time, max_time) ==
    IF k > Len(lines) \/ s.stopped \/ s.status # "ok" THEN s
    ELSE NamdProcessLines(
             NamdProcessLine(s, lines[k], anchor, timestep, min_time,
                             max_time),
             lines, k + 1, anchor, timestep, min_time, max_time)

\* Lines 518-539: the totals, and the fallback when no milestone changed.
NamdFinish(s, lines) ==
    LET T_alpha_total == SeqSum(s.T_alpha_list)
        totals == [key \in DOMAIN s.R_i_alpha_list |->
                      SeqSum(s.R_i_alpha_list[key])]
        fallback == DOMAIN s.R_i_alpha_list = {} /\ s.alias_src # None
    IN [status |-> "ok",
        N_i_j_alpha |-> s.N_i_j_alpha,
        R_i_alpha_list |-> IF fallback
                           THEN Put(EmptyDict, s.alias_src, s.T_alpha_list)
                           ELSE s.R_i_alpha_list,
        R_i_alpha_total |-> IF fallback
                            THEN Put(EmptyDict, s.alias_src, T_alpha_total)
                            ELSE totals,
        N_alpha_beta |-> s.N_alpha_beta,
        T_alpha_list |-> s.T_alpha_list,
        T_alpha_total |-> T_alpha_total,
        lines |-> lines]

NamdNotCalled == Raised("none", <<>>)

\* Lines 319-539.
namd_read_output_file_list(ofl, anchor, timestep, min_time, max_time, skip_restart_check) ==
    LET g == NamdMergeFiles(NamdReadFiles(ofl), skip_restart_check, 1, <<>>)
    IN IF g.status # "ok" THEN Raised(g.status, <<>>)
       ELSE LET s == NamdProcessLines(NamdInitialRun, g.lines, 1, anchor,
                                      timestep, min_time, max_time)
            IN IF s.status # "ok" THEN Raised(s.status, g.lines)
               ELSE NamdFinish(s, g.lines)

\* ------------------------------------------------------------ mmvt_cv.py
\* Lines 34-35 and 48-49: the milestone radius halfway between two anchors.
Midpoint(radius, neighbor_radius) ==
    FMul(<<1, 2>>, Float(radius + neighbor_radius))

\* Lines 41-42: the alias and the index go up by one after the lower
\* milestone, and only then.
AfterLower_Never(has_lower, n) == n

AfterLower(has_lower, n) == IF has_lower THEN n + 1 ELSE n

\* Lines 22-66.  input_anchors is a sequence, so input anchor i is
\* input_anchors[i + 1].
make_mmvt_milestoning_objects_spherical(cv_index, milestone_alias, index, input_anchor_index, anchor_index, anchors) ==
    LET num_anchors == Len(anchors)
        has_lower == input_anchor_index > 0
        has_upper == input_anchor_index < num_anchors - 1
        me == anchors[input_anchor_index + 1]
        milestone1 ==
            [index |-> index,
             neighbor_anchor_index |-> anchor_index - 1,
             alias_index |-> milestone_alias,
             cv_index |-> cv_index,
             variables |->
                 [k |-> -1,
                  radius |->
                      IF me.lower_milestone_radius = None
                      THEN Midpoint(me.radius,
                                    anchors[input_anchor_index].radius)
                      ELSE Float(me.lower_milestone_radius)]]
        alias2 == AfterLower(has_lower, milestone_alias)
        index2 == AfterLower(has_lower, index)
        milestone2 ==
            [index |-> index2,
             neighbor_anchor_index |-> anchor_index + 1,
             alias_index |-> alias2,
             cv_index |-> cv_index,
             variables |->
                 [k |-> 1,
                  radius |->
                      IF me.upper_milestone_radius = None
                      THEN Midpoint(me.radius,
                                    anchors[input_anchor_index + 2].radius)
                      ELSE Float(me.upper_milestone_radius)]]
    IN [milestones |-> (IF has_lower THEN <<milestone1>> ELSE <<>>)
                       \o (IF has_upper THEN <<milestone2>> ELSE <<>>),
        milestone_alias |-> alias2,
        milestone_index |-> index2]

\* ------------------------------------------------------------------ state
VARIABLES
    output_file_list,   \* the log files of one anchor, in the caller's order
    ret,                \* what the last direct call of the reader returned
    args,               \* the arguments of the last read
    stats,              \* an MMVT_anchor_statistics object
    new_data,           \* the engine wrote since stats last read the files
    reread,             \* the last read of stats repeated the one before it
    pc,                 \* where monte_carlo_milestoning_error is
    mcmc_args,          \* its arguments as given, with Q.shape[0]
    num, skip, stride,  \* its arguments, defaults filled in
    counter,            \* its loop counter
    new_data_sample,    \* the step that made the latest sample, or None
    data_sample_list,   \* the steps whose samples were kept
    k_alpha_beta_matrix,    \* the step that sampled the current anchor rates
    mmvt_Qij_alpha,     \* the step that sampled the current per-anchor Q
    sample_Q,           \* what the Q of each kept sample was assembled from
    model,              \* the model under analysis
    sample,             \* an MMVT_data_sample of the model
    input_anchors,      \* the input anchors of a spherical CV
    cv_args,            \* the alias and anchor index the build starts with
    milestone_index,    \* the milestone_index threaded through the calls
    anchor_milestones,  \* the milestones returned for each anchor so far
    namd_file_list,     \* the NAMD output files of one anchor, in order
    namd_ret,           \* what the call of the NAMD reader returned
    namd_args           \* the arguments of that call

readerVars == <<ret>>
anchorVars == <<stats, new_data, reread>>
logVars == <<output_file_list, args>>
mcmcVars == <<pc, mcmc_args, num, skip, stride, counter, new_data_sample,
              data_sample_list, k_alpha_beta_matrix, mmvt_Qij_alpha,
              sample_Q>>
sampleVars == <<model, sample>>
cvVars == <<input_anchors, cv_args, milestone_index, anchor_milestones>>
namdVars == <<namd_file_list, namd_ret, namd_args>>
vars == <<logVars, readerVars, anchorVars, mcmcVars, sampleVars, cvVars,
          namdVars>>

NoArgs == [min_time |-> None, max_time |-> None, skip_restart_check |-> FALSE]

TotalLines(ofl) == SeqSum([i \in 1..Len(ofl) |-> Len(ofl[i].lines)])

\* No model is loaded, and no data sample made (every attribute None).
NoModel == [num_anchors |-> 0, bulkstate |-> <<>>]
NoSample ==
    [stage |-> "none", status |-> "none",
     k_alpha_beta |-> NoList, T_alpha |-> NoList, N_i_j_alpha |-> NoList,
     R_i_alpha |-> NoList, pi_alpha |-> NoList,
     T |-> NoList, N_ij |-> NoList, R_i |-> NoList, added |-> <<>>,
     mcmc |-> NoList, Q |-> NoList]

\* The NAMD reader has not been called.
NamdNoArgs ==
    [timestep |-> 2, min_time |-> None, max_time |-> None,
     skip_restart_check |-> FALSE]

\* No model is being built.
NoBuild == [milestone_alias |-> 0, anchor_index |-> 0]

\* monte_carlo_milestoning_error has not been called.
NoCall == [num |-> 0, skip |-> None, stride |-> None, n_milestones |-> 0]

Init ==
    /\ output_file_list = <<>>
    /\ ret = NotCalled
    /\ args = NoArgs
    /\ stats = NewStatistics
    /\ new_data = FALSE
    /\ reread = FALSE
    /\ pc = "idle"
    /\ mcmc_args = NoCall
    /\ num = 0
    /\ skip = 0
    /\ stride = 1
    /\ counter = 0
    /\ new_data_sample = None
    /\ data_sample_list = <<>>
    /\ k_alpha_beta_matrix = MAIN
    /\ mmvt_Qij_alpha = MAIN
    /\ sample_Q = <<>>
    /\ model = NoModel
    /\ sample = NoSample
    /\ input_anchors = <<>>
    /\ cv_args = NoBuild
    /\ milestone_index = 0
    /\ anchor_milestones = <<>>
    /\ namd_file_list = <<>>
    /\ namd_ret = NamdNotCalled
    /\ namd_args = NamdNoArgs

\* The engine writes until a direct call is made or a read has raised.
MayWrite ==
    /\ ret.status = "none"
    /\ stats.status \in {"none", "ok"}

\* The engine starts a log file: after a restart, or for the next swarm.
\* The files of an anchor are all named after a swarm, or none is, and the
\* caller lists them swarm by swarm.
NewFile(swarm) ==
    /\ MayWrite
    /\ Len(output_file_list) < MaxFiles
    /\ Len(output_file_list) > 0 =>
           /\ (swarm = None) = (output_file_list[1].swarm = None)
           /\ swarm >= Last(output_file_list).swarm
    /\ output_file_list' =
           Append(output_file_list, [swarm |-> swarm, lines |-> <<>>])
    /\ new_data' = TRUE
    /\ UNCHANGED <<ret, args, stats, reread, mcmcVars, sampleVars, cvVars,
                   namdVars>>

\* The engine records a bounce in its current log file; its clock does not
\* run backwards within a file.  The reader treats the boundary numbers
\* alike, so the first bounce of the log is taken to be on boundary 1.
WriteLine(b, t) ==
    /\ MayWrite
    /\ Len(output_file_list) > 0
    /\ TotalLines(output_file_list) < MaxLines
    /\ TotalLines(output_file_list) = 0 => b = 1
    /\ LET written == output_file_list[Len(output_file_list)].lines
       IN Len(written) > 0 => t >= Last(written).dest_time
    /\ output_file_list' =
           [output_file_list EXCEPT ![Len(output_file_list)].lines =
               Append(@, [dest_boundary |-> b, dest_time |-> t])]
    /\ new_data' = TRUE
    /\ UNCHANGED <<ret, args, stats, reread, mcmcVars, sampleVars, cvVars,
                   namdVars>>

\* A caller reads the files with openmm_read_output_file_list.
ReadCall(min_time, max_time, skip_restart_check) ==
    /\ ret.status = "none"
    /\ ret' = openmm_read_output_file_list(output_file_list, min_time,
                  max_time, NoList, skip_restart_check)
    /\ args' = [min_time |-> min_time, max_time |-> max_time,
                skip_restart_check |-> skip_restart_check]
    /\ UNCHANGED <<output_file_list, anchorVars, mcmcVars, sampleVars,
                   cvVars,
                   namdVars>>

\* The analysis (re-)reads the files of the anchor into its statistics.
\* reread records that the call repeats the previous one: the same window
\* and nothing written to the files since.
ReadOutputFileList(min_time, max_time) ==
    /\ stats.status \in {"none", "ok"}
    /\ reread' = (/\ stats.status = "ok"
                  /\ ~new_data
                  /\ args.min_time = min_time
                  /\ args.max_time = max_time)
    /\ stats' = read_output_file_list(stats, output_file_list, min_time,
                                      max_time)
    /\ args' = [min_time |-> min_time, max_time |-> max_time,
                skip_restart_check |-> FALSE]
    /\ new_data' = FALSE
    /\ UNCHANGED <<output_file_list, readerVars, mcmcVars, sampleVars,
                   cvVars,
                   namdVars>>

\* Lines 1087-1113: the call, up to the loop.
MonteCarloCall(n, sk, st, n_milestones) ==
    /\ pc = "idle"
    /\ pc' = "loop"
    /\ mcmc_args' = [num |-> n, skip |-> sk, stride |-> st,
                     n_milestones |-> n_milestones]
    /\ num' = n
    /\ skip' = IF sk = None THEN DefaultSkip(n_milestones) ELSE sk
    /\ stride' = IF st = None THEN DefaultStride(n_milestones) ELSE st
    /\ counter' = 0
    /\ new_data_sample' = None
    /\ data_sample_list' = <<>>
    /\ k_alpha_beta_matrix' = MAIN
    /\ mmvt_Qij_alpha' = MAIN
    /\ sample_Q' = <<>>
    /\ UNCHANGED <<logVars, readerVars, anchorVars, sampleVars, cvVars,
                   namdVars>>

\* Lines 1114-1164: one step of the chain.
MonteCarloStep ==
    /\ pc = "loop"
    /\ counter < TotalMoves(num, skip, stride)
    /\ new_data_sample' = counter
    /\ data_sample_list' = IF Retained(counter, skip, stride)
                           THEN Append(data_sample_list, counter)
                           ELSE data_sample_list
    /\ sample_Q' = IF Retained(counter, skip, stride)
                   THEN Append(sample_Q, NewQ(mmvt_Qij_alpha, counter))
                   ELSE sample_Q
    /\ k_alpha_beta_matrix' = Sampled_At(counter)
    /\ mmvt_Qij_alpha' = Sampled_At(counter)
    /\ counter' = counter + 1
    /\ UNCHANGED <<pc, mcmc_args, num, skip, stride, logVars, readerVars, anchorVars,
                   sampleVars,
                   cvVars,
                   namdVars>>

\* Lines 1166-1168: the assertion after the loop fails.
MonteCarloNothingSampled ==
    /\ pc = "loop"
    /\ counter = TotalMoves(num, skip, stride)
    /\ new_data_sample = None
    /\ pc' = "AssertionError"
    /\ UNCHANGED <<mcmc_args, num, skip, stride, counter, new_data_sample,
                   data_sample_list, k_alpha_beta_matrix, mmvt_Qij_alpha,
                   sample_Q, logVars, readerVars, anchorVars,
                   sampleVars,
                   cvVars,
                   namdVars>>

\* Lines 1166-1191: the standard errors are computed over the kept samples
\* and returned with data_sample_list.
MonteCarloReturn ==
    /\ pc = "loop"
    /\ counter = TotalMoves(num, skip, stride)
    /\ new_data_sample # None
    /\ pc' = "done"
    /\ UNCHANGED <<mcmc_args, num, skip, stride, counter, new_data_sample,
                   data_sample_list, k_alpha_beta_matrix, mmvt_Qij_alpha,
                   sample_Q, logVars, readerVars, anchorVars,
                   sampleVars,
                   cvVars,
                   namdVars>>

\* The models: chains of AnchorCounts anchors, any of them flagged bulk.
AnchorCounts == {2, 3, 4}
Models ==
    UNION {[num_anchors : {n}, bulkstate : [0..(n - 1) -> BOOLEAN]] :
              n \in AnchorCounts}

\* The bounce counts per unit of time of an anchor toward a neighbor; a
\* pair without bounces (0) gets no entry in k_alpha_beta.
Rates == {0, 1, 2}
NeighborPairs(m) ==
    {pair \in Anchors(m) \X Anchors(m) :
        /\ ~m.bulkstate[pair[1]]
        /\ ~m.bulkstate[pair[2]]
        /\ HasNeighbor(pair[1], pair[2])}

\* The k_alpha_beta a data sample of model m may hold: None, or a
\* defaultdict with the rate of every pair of neighboring non-bulk anchors
\* that has bounces (calculate_pi_alpha reads no other rate).
RateDicts(m) ==
    {NoList} \cup
    {AList([pair \in {q \in NeighborPairs(m) : r[q] > 0} |-> Float(r[pair])]) :
        r \in [NeighborPairs(m) -> Rates]}

\* The milestones of anchor alpha of the chain, and the ordered pairs of
\* different ones.
AnchorMilestones(m, alpha) ==
    {i \in Milestones(m) : i = alpha - 1 \/ i = alpha}
MilestonePairs(m, alpha) ==
    {pair \in AnchorMilestones(m, alpha) \X AnchorMilestones(m, alpha) :
        pair[1] # pair[2]}
FirstMilestone(m, alpha) ==
    {i \in AnchorMilestones(m, alpha) :
        \A j \in AnchorMilestones(m, alpha) : i <= j}

\* The statistics an anchor may come with: every transition seen once;
\* transitions from its first milestone only; one bounce of no duration;
\* no event at all.
AnchorStatistics(m, alpha) ==
    <<[T_alpha |-> Float(1),
       N_i_j_alpha |-> [pair \in MilestonePairs(m, alpha) |-> 1],
       R_i_alpha |-> [i \in AnchorMilestones(m, alpha) |-> Float(1)]],
      [T_alpha |-> Float(2),
       N_i_j_alpha |-> [pair \in {q \in MilestonePairs(m, alpha) :
                                     q[1] \in FirstMilestone(m, alpha)} |-> 2],
       R_i_alpha |-> [i \in FirstMilestone(m, alpha) |-> Float(1)]],
      [T_alpha |-> Float(1),
       N_i_j_alpha |-> EmptyDict,
       R_i_alpha |-> [i \in FirstMilestone(m, alpha) |-> Zero]],
      [T_alpha |-> Float(1),
       N_i_j_alpha |-> EmptyDict,
       R_i_alpha |-> EmptyDict]>>

\* The statistics lists a data sample of model m may be made with: None, or
\* one entry per anchor, the first statistics for the bulk anchor and for
\* all other anchors but at most one.
NoStatistics ==
    [T_alpha |-> NoList, N_i_j_alpha |-> NoList, R_i_alpha |-> NoList]
Statistics(m) ==
    {[T_alpha |-> AList([alpha \in Anchors(m) |->
                            AnchorStatistics(m, alpha)[c[alpha]].T_alpha]),
      N_i_j_alpha |-> AList([alpha \in Anchors(m) |->
                            AnchorStatistics(m, alpha)[c[alpha]].N_i_j_alpha]),
      R_i_alpha |-> AList([alpha \in Anchors(m) |->
                            AnchorStatistics(m, alpha)[c[alpha]].R_i_alpha])] :
        c \in {d \in [Anchors(m) -> 1..4] :
                  /\ \A alpha \in BulkAnchors(m) : d[alpha] = 1
                  /\ Cardinality({alpha \in Anchors(m) : d[alpha] # 1}) <= 1}}

\* The models with exactly one bulk anchor.
DataModels == {m \in Models : Cardinality(BulkAnchors(m)) = 1}

\* Lines 765-817: a data sample is made for model m with the rates k and
\* the statistics s.
NewDataSample(m, k, s) ==
    /\ sample.stage = "none"
    /\ model' = m
    /\ sample' =
           [NoSample EXCEPT
               !.stage = "new",
               !.status = IF \/ k = NoList
                             \/ s = NoStatistics
                             \/ NAlphaIndexed(m, s.N_i_j_alpha[1])
                          THEN "ok" ELSE "IndexError",
               !.k_alpha_beta = k,
               !.T_alpha = s.T_alpha,
               !.N_i_j_alpha = s.N_i_j_alpha,
               !.R_i_alpha = s.R_i_alpha]
    /\ UNCHANGED <<logVars, readerVars, anchorVars, mcmcVars, cvVars,
                   namdVars>>

\* The analysis computes the stationary anchor probabilities.
CalculatePiAlpha ==
    /\ sample.stage = "new"
    /\ sample.status = "ok"
    /\ LET r == calculate_pi_alpha(sample.pi_alpha, model,
                                   sample.k_alpha_beta)
       IN sample' = [sample EXCEPT !.stage = "pi",
                                   !.status = r.status,
                                   !.pi_alpha = r.pi_alpha]
    /\ UNCHANGED <<model, logVars, readerVars, anchorVars, mcmcVars, cvVars,
                   namdVars>>

\* Lines 901-965, called once calculate_pi_alpha has returned.
FillOutDataQuantities ==
    /\ sample.stage = "pi"
    /\ sample.status = "ok"
    /\ IF \/ sample.k_alpha_beta = NoList
          \/ sample.T_alpha = NoList
          \/ sample.N_i_j_alpha = NoList
          \/ sample.R_i_alpha = NoList
       THEN sample' = [sample EXCEPT !.stage = "filled",
                                     !.status = "Exception"]
       ELSE LET r == fill_out_data_quantities(
                         model, sample.pi_alpha[1], sample.T_alpha[1],
                         sample.N_i_j_alpha[1], sample.R_i_alpha[1])
            IN sample' = [sample EXCEPT !.stage = "filled",
                                        !.status = r.status,
                                        !.T = AList(r.T),
                                        !.N_ij = AList(r.N_ij),
                                        !.R_i = AList(r.R_i),
                                        !.added = r.added]
    /\ UNCHANGED <<model, logVars, readerVars, anchorVars, mcmcVars, cvVars,
                   namdVars>>

\* Lines 1099-1101: the error estimate of a filled-out sample begins.
MakeMcmcQuantities ==
    /\ sample.stage = "filled"
    /\ sample.status = "ok"
    /\ sample' = [sample EXCEPT
                     !.stage = "mcmc",
                     !.mcmc = AList(make_mcmc_quantities(
                                  model, sample.k_alpha_beta[1],
                                  sample.pi_alpha[1], sample.T_alpha[1],
                                  sample.N_i_j_alpha[1],
                                  sample.R_i_alpha[1]))]
    /\ UNCHANGED <<model, logVars, readerVars, anchorVars, mcmcVars, cvVars,
                   namdVars>>

\* What the sampler of markov_chain_monte_carlo may return for the rate
\* matrix Q of m rows: every rate drawn anew, here as a multiple of the
\* rate it had, and the diagonal set to the negative row sum.
Scales == {1, 2}
Sampled(Q, scale, m) ==
    LET entry(i, j) ==
            IF i # j THEN FMul(Float(scale), Q[i, j])
            ELSE FNeg(FMul(Float(scale), OffDiagonalSum(Q, i, m)))
    IN Matrix([i \in 0..(m - 1), j \in 0..(m - 1) |-> entry(i, j)], m)

\* Lines 1127-1147: a retained step of the chain builds the global rate
\* matrix from the per-anchor rate matrices that the step before it left.
SampleRateMatrix(scale) ==
    /\ sample.stage = "mcmc"
    /\ LET q == sample.mcmc[1]
           m == model.num_anchors - 1
           mmvt_Nij_list ==
               [p \in 1..Len(q.mmvt_Qij_alpha) |->
                   make_new_Nij_alpha(
                       Sampled(q.mmvt_Qij_alpha[p], scale, m),
                       q.mmvt_Ri_alpha[p], m)]
       IN sample' = [sample EXCEPT
                        !.stage = "Q",
                        !.Q = AList(mmvt_Q_N_R(
                                  m, model.num_anchors - 1, mmvt_Nij_list,
                                  q.mmvt_Ri_alpha, sample.T_alpha[1], q.T,
                                  sample.pi_alpha[1]))]
    /\ UNCHANGED <<model, logVars, readerVars, anchorVars, mcmcVars, cvVars,
                   namdVars>>

\* The reader called on the log files of an anchor.
Next ==
    \/ \E swarm \in SwarmIndices \cup {None} : NewFile(swarm)
    \/ \E b \in Boundaries, t \in Times : WriteLine(b, t)
    \/ \E min_time \in WindowTimes, max_time \in WindowTimes,
          skip_restart_check \in BOOLEAN :
              ReadCall(min_time, max_time, skip_restart_check)

Spec == Init /\ [][Next]_vars

\* The statistics object of an anchor whose files are not named after
\* swarms, read again while the engine writes.
NextAnchor ==
    \/ NewFile(None)
    \/ \E b \in Boundaries, t \in Times : WriteLine(b, t)
    \/ \E min_time \in WindowTimes, max_time \in WindowTimes :
           ReadOutputFileList(min_time, max_time)

SpecAnchor == Init /\ [][NextAnchor]_vars

\* The sampling loop of the error estimate.
NextMCMC ==
    \/ \E n \in 0..MaxNum, sk \in {None} \cup 0..MaxSkip,
          st \in {None} \cup 1..MaxStride, n_milestones \in 1..MaxMilestones :
              MonteCarloCall(n, sk, st, n_milestones)
    \/ MonteCarloStep
    \/ MonteCarloNothingSampled
    \/ MonteCarloReturn

SpecMCMC == Init /\ [][NextMCMC]_vars

\* calculate_pi_alpha on the data samples of the models.
NextPi ==
    \/ \E m \in Models : \E k \in RateDicts(m) :
           NewDataSample(m, k, NoStatistics)
    \/ CalculatePiAlpha

SpecPi == Init /\ [][NextPi]_vars

\* The analysis of a data sample made from the statistics of the anchors.
NextData ==
    \/ \E m \in DataModels : \E k \in RateDicts(m) : \E s \in Statistics(m) :
           NewDataSample(m, k, s)
    \/ CalculatePiAlpha
    \/ FillOutDataQuantities
    \/ MakeMcmcQuantities
    \/ \E scale \in Scales : SampleRateMatrix(scale)

SpecData == Init /\ [][NextData]_vars

\* The input anchors of a spherical CV: concentric shells of growing radius,
\* each with or without its own lower and upper milestone radius.
MaxInputAnchors == 3
InputAnchor(p) ==
    [radius : {2 * p},
     lower_milestone_radius : {None, 2 * p - 1},
     upper_milestone_radius : {None, 2 * p + 1}]
InputAnchorLists ==
    UNION {{ia \in [1..n -> UNION {InputAnchor(p) : p \in 1..n}] :
               \A p \in 1..n : ia[p] \in InputAnchor(p)} :
           n \in 1..MaxInputAnchors}
FirstAliases == {0, 1}
FirstAnchorIndices == {0, 1}
CvIndex == 0

\* A model builder takes the input anchors of a CV; every anchor starts
\* with the alias first_alias, and the anchors are numbered from
\* first_anchor.
NewInputAnchors(ia, first_alias, first_anchor) ==
    /\ input_anchors = <<>>
    /\ input_anchors' = ia
    /\ cv_args' = [milestone_alias |-> first_alias,
                   anchor_index |-> first_anchor]
    /\ milestone_index' = 0
    /\ anchor_milestones' = <<>>
    /\ UNCHANGED <<logVars, readerVars, anchorVars, mcmcVars, sampleVars,
                   namdVars>>

\* The call for the next input anchor, with the milestone_index the call
\* before returned.
MakeMilestones ==
    /\ Len(anchor_milestones) < Len(input_anchors)
    /\ LET i == Len(anchor_milestones)
           made == make_mmvt_milestoning_objects_spherical(
                       CvIndex, cv_args.milestone_alias, milestone_index, i,
                       cv_args.anchor_index + i, input_anchors)
       IN /\ anchor_milestones' = Append(anchor_milestones, made.milestones)
          /\ milestone_index' = made.milestone_index
    /\ UNCHANGED <<input_anchors, cv_args, logVars, readerVars, anchorVars,
                   mcmcVars, sampleVars,
                   namdVars>>

\* The milestones of the anchors of one spherical CV, anchor after anchor.
NextCV ==
    \/ \E ia \in InputAnchorLists, first_alias \in FirstAliases,
          first_anchor \in FirstAnchorIndices :
              NewInputAnchors(ia, first_alias, first_anchor)
    \/ MakeMilestones

SpecCV == Init /\ [][NextCV]_vars

\* The anchor the NAMD files belong to: anchor 1 of a chain, with the
\* milestones make_mmvt_milestoning_objects_spherical gives the second of
\* three input anchors.
MaxNamdFiles == 2
MaxNamdLines == 3
NamdAnchor ==
    [index |-> 1,
     milestones |->
         make_mmvt_milestoning_objects_spherical(
             CvIndex, 1, 0, 1, 1,
             [p \in 1..3 |-> [radius |-> 2 * p,
                              lower_milestone_radius |-> None,
                              upper_milestone_radius |-> None]]).milestones]
NamdNeighbors ==
    {NamdAnchor.milestones[n].neighbor_anchor_index :
        n \in DOMAIN NamdAnchor.milestones}
NamdMilestones ==
    {NamdAnchor.milestones[n].index : n \in DOMAIN NamdAnchor.milestones}
Timesteps == {2}
NamdTotalLines(ofl) == SeqSum([i \in 1..Len(ofl) |-> Len(ofl[i])])

\* The milestone lines of the current file.
NamdCrossings(file) ==
    SelectSeq(file, LAMBDA line : line.kind = "Milestone")

\* NAMD starts an output file, at the start and after a restart.
NamdNewFile ==
    /\ namd_ret.status = "none"
    /\ Len(namd_file_list) < MaxNamdFiles
    /\ namd_file_list' = Append(namd_file_list, <<>>)
    /\ UNCHANGED <<namd_ret, namd_args, logVars, readerVars, anchorVars,
                   mcmcVars, sampleVars, cvVars>>

\* NAMD writes a line to its current file; its step counter does not run
\* backwards within a file.
NamdWrite(line) ==
    /\ namd_ret.status = "none"
    /\ Len(namd_file_list) > 0
    /\ NamdTotalLines(namd_file_list) < MaxNamdLines
    /\ LET written == Last(namd_file_list)
       IN Len(written) > 0 => line.stepnum >= Last(written).stepnum
    /\ namd_file_list' =
           [namd_file_list EXCEPT ![Len(namd_file_list)] = Append(@, line)]
    /\ UNCHANGED <<namd_ret, namd_args, logVars, readerVars, anchorVars,
                   mcmcVars, sampleVars, cvVars>>

\* A collision with the boundary toward a neighboring anchor.
NamdWriteCell(next_anchor, stepnum) ==
    /\ next_anchor # NamdAnchor.index
    /\ NamdWrite(CellLine(NamdAnchor.index, next_anchor, stepnum, None))

\* A milestone is touched: the first touch of a run has no source, a later
\* one has the milestone touched before as its source and the steps since
\* then as its incubation steps.
NamdWriteMilestone(dest, stepnum) ==
    /\ Len(namd_file_list) > 0
    /\ LET before == NamdCrossings(Last(namd_file_list))
       IN IF Len(before) = 0
          THEN NamdWrite(MilestoneLine(NONE_SRC, dest, stepnum, 0, None))
          ELSE /\ Last(before).dest # dest
               /\ NamdWrite(MilestoneLine(Last(before).dest, dest, stepnum,
                       stepnum - Last(before).stepnum, None))

\* A caller reads the files with namd_read_output_file_list.
NamdReadCall(timestep, min_time, max_time, skip_restart_check) ==
    /\ namd_ret.status = "none"
    /\ namd_ret' = namd_read_output_file_list(namd_file_list, NamdAnchor,
                       timestep, min_time, max_time, skip_restart_check)
    /\ namd_args' = [timestep |-> timestep, min_time |-> min_time,
                     max_time |-> max_time,
                     skip_restart_check |-> skip_restart_check]
    /\ UNCHANGED <<namd_file_list, logVars, readerVars, anchorVars, mcmcVars,
                   sampleVars, cvVars>>

\* The NAMD files of an anchor are written and then read.
NextNAMD ==
    \/ NamdNewFile
    \/ \E next_anchor \in NamdNeighbors, stepnum \in Times :
           NamdWriteCell(next_anchor, stepnum)
    \/ \E dest \in NamdMilestones, stepnum \in Times :
           NamdWriteMilestone(dest, stepnum)
    \/ \E timestep \in Timesteps, min_time \in WindowTimes,
          max_time \in WindowTimes, skip_restart_check \in BOOLEAN :
              NamdReadCall(timestep, min_time, max_time, skip_restart_check)

SpecNAMD == Init /\ [][NextNAMD]_vars

\* ------------------------------------------- vocabulary of the properties
\* The swarm index in force when file i is opened (line 93).
RECURSIVE CurrentIndex(_, _)
CurrentIndex(ofl, i) ==
    IF i <= 1 THEN 0
    ELSE IF ofl[i - 1].swarm # None THEN ofl[i - 1].swarm
    ELSE CurrentIndex(ofl, i - 1)

\* File i is a swarm boundary: its swarm index differs from the preceding one.
OpensSwarm(ofl, i) ==
    ofl[i].swarm # None /\ ofl[i].swarm # CurrentIndex(ofl, i)

\* The swarm file i belongs to, counted from 0 in file order.
SwarmOfFile(ofl, i) == Cardinality({j \in 1..i : OpensSwarm(ofl, j)})

TimeOrdered(ls) ==
    \A p, q \in 1..Len(ls) : p < q => ls[p].dest_time <= ls[q].dest_time

\* Every log file is internally time-ordered, as an engine writes it.
FilesTimeOrdered(ofl) == \A i \in 1..Len(ofl) : TimeOrdered(ofl[i].lines)

Called == ret.status # "none"
Returned == ret.status = "ok"
\* The merged list was built (the call returned, or raised while processing).
Merged == ret.status \in {"ok", "AssertionError"}
RestartCheck == ~args.skip_restart_check

IsEvent(line) == line # NEW_SWARM
InWindow(line) ==
    /\ args.min_time # None => line.dest_time >= args.min_time
    /\ args.max_time # None => line.dest_time <= args.max_time

\* The next file after file i that holds a record, 0 when there is none.
NextFileWithLines(ofl, i) ==
    LET later == {j \in (i + 1)..Len(ofl) : Len(ofl[j].lines) > 0}
    IN IF later = {} THEN 0 ELSE CHOOSE j \in later : \A k \in later : j <= k

\* File j restarts file i: it is the next file with records, it continues the
\* same swarm, and it starts before trailing records of file i.
Restarts(ofl, i, j) ==
    /\ j = NextFileWithLines(ofl, i)
    /\ j # 0
    /\ SwarmOfFile(ofl, i) = SwarmOfFile(ofl, j)
    /\ \E k \in 1..Len(ofl[i].lines) :
           ofl[i].lines[k].dest_time > ofl[j].lines[1].dest_time

\* The records of the merged list the loop of lines 171-226 gets to process:
\* markers stay, records before min_time are skipped, and the loop ends at
\* the first record after max_time.
StopIndex(lines) ==
    LET stops == {k \in 1..Len(lines) :
                     /\ IsEvent(lines[k])
                     /\ ~(args.min_time # None
                            /\ lines[k].dest_time < args.min_time)
                     /\ args.max_time # None
                     /\ lines[k].dest_time > args.max_time}
    IN IF stops = {} THEN Len(lines) + 1
       ELSE CHOOSE k \in stops : \A m \in stops : k <= m

Processed(lines) ==
    LET keep(line) == ~IsEvent(line) \/ InWindow(line)
    IN SelectSeq(SubSeq(lines, 1, StopIndex(lines) - 1), keep)

\* Positions of Processed whose record follows another record of the same
\* section of the merged list (no marker in between).
Followers(P) == {k \in 2..Len(P) : IsEvent(P[k]) /\ IsEvent(P[k - 1])}
Events(P) == SelectSeq(P, IsEvent)
\* The sections of the merged list that hold a processed record.
Sections(P) ==
    {k \in 1..Len(P) : IsEvent(P[k]) /\ (k = 1 \/ ~IsEvent(P[k - 1]))}

DictSum(d) ==
    LET RECURSIVE Sum(_)
        Sum(keys) == IF keys = {} THEN 0
                     ELSE LET k == CHOOSE x \in keys : TRUE
                          IN d[k] + Sum(keys \ {k})
    IN Sum(DOMAIN d)

\* ----------------------------------------------------------------- claims
\* C1: monte_carlo_milestoning_error returns exactly num samples in
\* data_sample_list, for every num >= 1, skip >= 0 and stride >= 1, the
\* defaults skip = 10*N^2 and stride = N^2 included.
C1_ExactlyNumSamples ==
    (pc = "done" /\ num >= 1) => Len(data_sample_list) = num

\* C2: monte_carlo_milestoning_error fails with the assertion whenever no
\* sample was retained; it never returns standard errors computed from an
\* empty sample list.
C2_NoReturnWithoutSamples ==
    /\ pc = "done" => Len(data_sample_list) > 0
    /\ (pc = "AssertionError") => Len(data_sample_list) = 0

\* What a first read of the files as they are now, with the window of the
\* last read, gives.
FreshRead ==
    openmm_read_output_file_list(output_file_list, args.min_time,
                                 args.max_time, NoList, FALSE)

\* C3: after a first read_output_file_list, a later read of log files that
\* hold additional events or files produces statistics that include the new
\* events.
C3_RereadIncludesNewEvents ==
    (stats.status = "ok" /\ ~new_data /\ FreshRead.status = "ok") =>
        /\ stats.N_alpha_beta = FreshRead.N_alpha_beta
        /\ stats.N_i_j_alpha = FreshRead.N_i_j_alpha
        /\ stats.R_i_alpha_list = FreshRead.R_i_alpha_list
        /\ stats.T_alpha_total = FreshRead.T_alpha_total

\* C4: with the restart check enabled, when a later file starts at a time
\* t_restart that lies before trailing events of the previous file, every
\* event of the previous file with time >= t_restart is discarded from the
\* merged sequence.
C4_TrailingEventsDiscarded ==
    (Merged /\ RestartCheck) =>
        \A k \in 1..Len(ret.lines) :
            IsEvent(ret.lines[k]) =>
                LET i == ret.lines[k].file
                    j == NextFileWithLines(output_file_list, i)
                IN Restarts(output_file_list, i, j) =>
                       ret.lines[k].dest_time
                           < output_file_list[j].lines[1].dest_time

\* C5: with the restart check enabled and every file internally
\* time-ordered, the merged sequence is non-decreasing in time within each
\* swarm.
C5_MergedTimeOrdered ==
    (Merged /\ RestartCheck /\ FilesTimeOrdered(output_file_list)) =>
        \A p, q \in 1..Len(ret.lines) :
            (/\ p < q
             /\ IsEvent(ret.lines[p])
             /\ IsEvent(ret.lines[q])
             /\ SwarmOfFile(output_file_list, ret.lines[p].file)
                    = SwarmOfFile(output_file_list, ret.lines[q].file))
            => ret.lines[p].dest_time <= ret.lines[q].dest_time

\* C5 witness: a restart trimmed a file, and records of both files of the
\* same swarm are in the merged sequence.
C5_Witness ==
    /\ Returned /\ RestartCheck /\ FilesTimeOrdered(output_file_list)
    /\ Len(Events(ret.lines)) < TotalLines(output_file_list)
    /\ \E p, q \in 1..Len(ret.lines) :
           /\ p < q
           /\ IsEvent(ret.lines[p])
           /\ IsEvent(ret.lines[q])
           /\ ret.lines[p].file # ret.lines[q].file
           /\ ret.lines[p].dest_time < ret.lines[q].dest_time
           /\ SwarmOfFile(output_file_list, ret.lines[p].file)
                  = SwarmOfFile(output_file_list, ret.lines[q].file)

\* The positions of Followers where the boundary changes.
Changes(P) ==
    {k \in Followers(P) : P[k - 1].dest_boundary # P[k].dest_boundary}

\* The record the incubation time at change k is measured from: the previous
\* boundary change, or the first record of the section.
IncubationStart(P, k) ==
    LET starts == {m \in Changes(P) \cup Sections(P) : m < k}
    IN CHOOSE m \in starts : \A n \in starts : n <= m

\* The incubation times that leave boundary i, in log order.
Incubations(P, i) ==
    LET at == Ascending({k \in Changes(P) : P[k - 1].dest_boundary = i})
    IN [n \in 1..Len(at) |->
           P[at[n]].dest_time - P[IncubationStart(P, at[n])].dest_time]

Transitions(i) ==
    DictSum([key \in {k \in DOMAIN ret.N_i_j_alpha : k[1] = i} |->
                ret.N_i_j_alpha[key]])

Sources == Boundaries \cup DOMAIN ret.R_i_alpha_list

\* C6 as stated: on return, for every source i, len(R_i_alpha_list[i]) is
\* the sum over j of N_i_j_alpha[(i, j)], and no key (i, i) exists.
C6_IncubationPerTransition ==
    Returned =>
        /\ \A i \in Sources :
               Len(Get(ret.R_i_alpha_list, i, <<>>)) = Transitions(i)
        /\ \A key \in DOMAIN ret.N_i_j_alpha : key[1] # key[2]

\* C6 amended: every consecutive pair of processed events of one section of
\* the merged list whose boundaries differ adds one to N_i_j_alpha[(src,
\* dest)] and one incubation sample, the time since the previous boundary
\* change (or the first event), to R_i_alpha_list[src]; same-boundary pairs
\* add neither; no key (i, i) exists; and when at least one boundary change
\* was processed, len(R_i_alpha_list[i]) is the sum over j of
\* N_i_j_alpha[(i, j)] for every source i.
C6_IncubationPerTransitionAmended ==
    Returned =>
        LET P == Processed(ret.lines)
        IN /\ \A i, j \in Boundaries :
                  Get(ret.N_i_j_alpha, <<i, j>>, 0) =
                      Cardinality({k \in Changes(P) :
                          /\ P[k - 1].dest_boundary = i
                          /\ P[k].dest_boundary = j})
           /\ \A key \in DOMAIN ret.N_i_j_alpha :
                  key[1] # key[2] /\ ret.N_i_j_alpha[key] > 0
           /\ Changes(P) # {} =>
                  \A i \in Sources :
                      /\ Get(ret.R_i_alpha_list, i, <<>>) = Incubations(P, i)
                      /\ Len(Get(ret.R_i_alpha_list, i, <<>>))
                             = Transitions(i)

\* C6 witness: a read that processed a same-boundary pair and a boundary
\* change, so that T_alpha_list is longer than the incubation list.
C6_Witness ==
    /\ Returned
    /\ \E i \in Boundaries : Transitions(i) >= 1
                                /\ Len(ret.T_alpha_list) > Transitions(i)
    /\ \E k \in Followers(Processed(ret.lines)) :
           k \notin Changes(Processed(ret.lines))

\* C7 as stated: every processed event increments N_alpha_beta, so the sum
\* of all N_alpha_beta values is the number of processed events.
C7_EveryEventCounted ==
    Returned =>
        DictSum(ret.N_alpha_beta) = Len(Events(Processed(ret.lines)))

\* C7 amended: every processed event except the first of each section of the
\* merged list (which only sets the time reference) increments N_alpha_beta
\* of its boundary and appends the time since the previous event to
\* T_alpha_list, whether or not the boundary changed; so the sum of all
\* N_alpha_beta values is len(T_alpha_list), the number of processed events
\* minus the number of sections that hold one.
C7_EveryEventCountedAmended ==
    Returned =>
        LET P == Processed(ret.lines)
            at == Ascending(Followers(P))
        IN /\ \A b \in Boundaries :
                  Get(ret.N_alpha_beta, b, 0) =
                      Cardinality({k \in Followers(P) :
                                      P[k].dest_boundary = b})
           /\ DOMAIN ret.N_alpha_beta \subseteq Boundaries
           /\ ret.T_alpha_list =
                  [n \in 1..Len(at) |->
                      P[at[n]].dest_time - P[at[n] - 1].dest_time]
           /\ DictSum(ret.N_alpha_beta) = Len(ret.T_alpha_list)
           /\ DictSum(ret.N_alpha_beta) =
                  Len(Events(P)) - Cardinality(Sections(P))

\* C7 witness: a read of two swarms whose first events are not counted
\* while a later same-boundary bounce is.
C7_Witness ==
    /\ Returned
    /\ Cardinality(Sections(Processed(ret.lines))) = 2
    /\ \E k \in Followers(Processed(ret.lines)) :
           k \notin Changes(Processed(ret.lines))
    /\ DictSum(ret.N_alpha_beta) = 1

\* The processed events of the merged list that are inside the window and
\* belong to swarm sw.
WindowOfSwarm(sw) ==
    LET mine(line) ==
            /\ IsEvent(line)
            /\ InWindow(line)
            /\ SwarmOfFile(output_file_list, line.file) = sw
    IN SelectSeq(ret.lines, mine)

Span(events) ==
    IF Len(events) = 0 THEN 0
    ELSE Last(events).dest_time - Head(events).dest_time

SpanSum ==
    LET Sum[sw \in -1..MaxFiles] ==
            IF sw = -1 THEN 0 ELSE Span(WindowOfSwarm(sw)) + Sum[sw - 1]
    IN Sum[MaxFiles]

\* C8: T_alpha_total is the time of the last minus the time of the first
\* event inside [min_time, max_time], summed over the swarms (stated for a
\* read with the restart check, which keeps each swarm time-ordered).
C8_TotalTimeIsSpan ==
    (Returned /\ RestartCheck) =>
        ret.T_alpha_total = SpanSum

\* C9: an event earlier than the previous processed event of its section
\* makes the read fail with an assertion, with and without the restart
\* check; a read that returns holds no negative incubation time and no
\* negative time between bounces.
C9_NoNegativeTimes ==
    /\ Called =>
           LET P == Processed(ret.lines)
           IN (\E k \in Followers(P) :
                   P[k].dest_time < P[k - 1].dest_time)
              => ret.status = "AssertionError"
    /\ Returned =>
           /\ \A n \in 1..Len(ret.T_alpha_list) : ret.T_alpha_list[n] >= 0
           /\ \A i \in DOMAIN ret.R_i_alpha_list :
                  \A n \in 1..Len(ret.R_i_alpha_list[i]) :
                      ret.R_i_alpha_list[i][n] >= 0

\* C9 witness: without the restart check, a same-boundary bounce earlier
\* than the previous one was read and the call raised the assertion.
C9_Witness ==
    /\ ret.status = "AssertionError"
    /\ args.skip_restart_check
    /\ LET P == Processed(ret.lines)
       IN \E k \in Followers(P) :
              /\ P[k].dest_time < P[k - 1].dest_time
              /\ P[k].dest_boundary = P[k - 1].dest_boundary
              /\ \A m \in Followers(P) :
                     m < k => P[m].dest_time >= P[m - 1].dest_time

\* C10: at every swarm boundary the running state is reset, so no
\* transition and no time between bounces spans two swarms, while all swarms
\* accumulate into the same totals, also when the restart check trims files.
C10_NothingSpansSwarms ==
    Returned =>
        LET E == Events(Processed(ret.lines))
            within == {k \in 2..Len(E) :
                          SwarmOfFile(output_file_list, E[k - 1].file)
                              = SwarmOfFile(output_file_list, E[k].file)}
        IN /\ Len(ret.T_alpha_list) = Cardinality(within)
           /\ DictSum(ret.N_alpha_beta) = Cardinality(within)
           /\ DictSum(ret.N_i_j_alpha) =
                  Cardinality({k \in within :
                      E[k - 1].dest_boundary # E[k].dest_boundary})

\* The boundaries the processed records touch.
Touched(P) == {P[k].dest_boundary : k \in {m \in 1..Len(P) : IsEvent(P[m])}}

\* C11: when the processed events hold no milestone change, the total-time
\* statistics (list and total) are returned as the incubation-time
\* statistics of the single milestone that was touched, and of no other
\* key; logs of several swarms and logs without a processed event included.
C11_FallbackToTouchedMilestone ==
    Returned =>
        LET P == Processed(ret.lines)
        IN (Changes(P) = {} /\ Cardinality(Touched(P)) <= 1) =>
               /\ DOMAIN ret.R_i_alpha_list = Touched(P)
               /\ DOMAIN ret.R_i_alpha_total = Touched(P)
               /\ \A b \in Touched(P) :
                      /\ ret.R_i_alpha_list[b] = ret.T_alpha_list
                      /\ ret.R_i_alpha_total[b] = ret.T_alpha_total

\* C12: a second read_output_file_list on the same statistics object, with
\* the same files, the same window and no new data, leaves N_i_j_alpha,
\* R_i_alpha_*, N_alpha_beta, T_alpha_* and k_alpha_beta as the read before
\* it made them.
C12_RereadIdempotent ==
    [][(stats.status = "ok" /\ ~new_data /\ reread') => stats' = stats]_vars

\* C12 witness: the files hold a bounce with a rate, and the last read
\* repeated the one before it.
C12_Witness ==
    /\ reread
    /\ stats.status = "ok"
    /\ Len(stats.T_alpha_list) > 0
    /\ \E key \in DOMAIN stats.k_alpha_beta : stats.k_alpha_beta[key][2] > 0

\* C13: after any sequence of reads on one statistics object, windows
\* differing or not, k_alpha_beta has an entry for exactly the neighbors of
\* the latest N_alpha_beta, each the quotient N_alpha_beta[key] /
\* T_alpha_total of the latest read.
C13_RatesOfLatestRead ==
    stats.status = "ok" =>
        /\ DOMAIN stats.k_alpha_beta = DOMAIN stats.N_alpha_beta
        /\ \A key \in DOMAIN stats.N_alpha_beta :
               stats.k_alpha_beta[key] =
                   <<stats.N_alpha_beta[key], stats.T_alpha_total>>

\* C14: an anchor whose T_alpha_total is zero while a bounce was counted is
\* rejected by read_output_file_list; it never yields a derived rate
\* k_alpha_beta.
C14_ZeroTimeRejected ==
    (/\ stats.status = "ok"
     /\ stats.T_alpha_total = 0
     /\ DictSum(stats.N_alpha_beta) >= 1)
    => \A key \in DOMAIN stats.N_alpha_beta :
           key \notin DOMAIN stats.k_alpha_beta

PiReturned == sample.stage = "pi" /\ sample.status = "ok"
NonBulk(m) == Anchors(m) \ BulkAnchors(m)

\* C15: after calculate_pi_alpha returns, the entry of the bulk anchor in
\* pi_alpha is 0 and the other entries are numbers, those of the non-bulk
\* anchors, at whichever index the bulk anchor is.
C15_BulkEntryZero ==
    PiReturned =>
        /\ \A alpha \in BulkAnchors(model) :
               FEq(sample.pi_alpha[1][alpha], Zero)
        /\ \A alpha \in NonBulk(model) : ~IsNaN(sample.pi_alpha[1][alpha])

\* C16: whenever calculate_pi_alpha returns for a model with non-negative
\* rates, every entry of pi_alpha is >= 0 and the entries of the non-bulk
\* anchors sum to 1.
C16_ProbabilityVector ==
    PiReturned =>
        /\ \A alpha \in Anchors(model) : FGe0(sample.pi_alpha[1][alpha])
        /\ FEq(FSum([alpha \in NonBulk(model) |-> sample.pi_alpha[1][alpha]],
                    NonBulk(model)), One)

\* C17: calculate_pi_alpha fails with an assertion when the model has no
\* bulk anchor and when it has more than one; it raises an exception when
\* the data sample has no k_alpha_beta; in each case pi_alpha is not a
\* refined distribution: it stays None, or is the zeros of line 830.
C17_BulkAnchorRequired ==
    sample.stage = "pi" =>
        /\ sample.k_alpha_beta = NoList =>
               sample.status = "Exception" /\ sample.pi_alpha = NoList
        /\ (/\ sample.k_alpha_beta # NoList
            /\ Cardinality(BulkAnchors(model)) # 1) =>
               /\ sample.status = "AssertionError"
               /\ sample.pi_alpha =
                      AList([alpha \in Anchors(model) |-> Zero])

\* C17 witness: the call failed on a model with two bulk anchors whose
\* sample holds a positive rate.
C17_Witness ==
    /\ sample.stage = "pi"
    /\ sample.status = "AssertionError"
    /\ Cardinality(BulkAnchors(model)) = 2
    /\ sample.k_alpha_beta # NoList
    /\ \E pair \in DOMAIN sample.k_alpha_beta[1] :
           FGt0(sample.k_alpha_beta[1][pair])

\* fill_out_data_quantities has returned for the sample.
FilledOut == sample.stage \in {"filled", "mcmc", "Q"} /\ sample.status = "ok"

\* The weight T * pi_alpha[a] / T_alpha[a] of anchor a in the sample.
Weight(a) ==
    FDiv(FMul(sample.T[1], sample.pi_alpha[1][a]), sample.T_alpha[1][a])

\* The non-bulk anchors whose statistics d has the key.
Holders(d, key) == {a \in NonBulk(model) : key \in DOMAIN d[a]}

\* C18: fill_out_data_quantities sets T = 1 / (sum over the non-bulk
\* anchors of pi_alpha[a] / T_alpha[a]); N_ij[key] is the sum over the
\* non-bulk anchors of (T * pi_alpha[a] / T_alpha[a]) * N_i_j_alpha[a][key]
\* and R_i[key] likewise from R_i_alpha; the weights sum to 1 over the
\* non-bulk anchors and the bulk anchor contributes nothing.
C18_WeightedAssembly ==
    FilledOut =>
        /\ FEq(sample.T[1],
               FInv(FSum([a \in NonBulk(model) |->
                             FDiv(sample.pi_alpha[1][a], sample.T_alpha[1][a])],
                         NonBulk(model))))
        /\ FEq(FSum([a \in NonBulk(model) |-> Weight(a)], NonBulk(model)), One)
        /\ DOMAIN sample.N_ij[1] =
               UNION {DOMAIN sample.N_i_j_alpha[1][a] : a \in NonBulk(model)}
        /\ \A key \in DOMAIN sample.N_ij[1] :
               FEq(sample.N_ij[1][key],
                   FSum([a \in Holders(sample.N_i_j_alpha[1], key) |->
                            FMul(Weight(a),
                                 Float(sample.N_i_j_alpha[1][a][key]))],
                        Holders(sample.N_i_j_alpha[1], key)))
        /\ DOMAIN sample.R_i[1] =
               UNION {DOMAIN sample.R_i_alpha[1][a] : a \in NonBulk(model)}
        /\ \A key \in DOMAIN sample.R_i[1] :
               FEq(sample.R_i[1][key],
                   FSum([a \in Holders(sample.R_i_alpha[1], key) |->
                            FMul(Weight(a), sample.R_i_alpha[1][a][key])],
                        Holders(sample.R_i_alpha[1], key)))

\* C18 witness: a filled-out sample in which two anchors of different
\* total times and different probabilities contribute to the same R_i.
C18_Witness ==
    /\ sample.stage = "filled"
    /\ sample.status = "ok"
    /\ \E a, b \in NonBulk(model) : \E key \in DOMAIN sample.R_i[1] :
           /\ a # b
           /\ {a, b} \subseteq Holders(sample.R_i_alpha[1], key)
           /\ ~FEq(sample.T_alpha[1][a], sample.T_alpha[1][b])
           /\ ~FEq(sample.pi_alpha[1][a], sample.pi_alpha[1][b])
           /\ DOMAIN sample.N_i_j_alpha[1][a] # {}

\* C19: every contribution that fill_out_data_quantities adds to N_ij and
\* to R_i is strictly positive; a zero or negative contribution fails an
\* assertion instead of being accumulated.
C19_ContributionsPositive ==
    sample.stage = "filled" =>
        \A n \in DOMAIN sample.added : FGt0(sample.added[n])

\* The matrix A of m rows is a generator: its off-diagonal entries are
\* finite and >= 0, and every row sums to zero.
IsGenerator(A, m) ==
    \A i \in 0..(m - 1) :
        /\ \A j \in (0..(m - 1)) \ {i} : FGe0(A[i, j]) /\ IsFinite(A[i, j])
        /\ FEq(FSum([j \in 0..(m - 1) |-> A[i, j]], 0..(m - 1)), Zero)

\* The off-diagonal entries of the matrix A of m rows are N(i,j) / R(i)
\* where R(i) > 0, and 0 elsewhere.
IsRateOf(A, N(_, _), R(_), m) ==
    \A i \in 0..(m - 1) : \A j \in (0..(m - 1)) \ {i} :
        FEq(A[i, j], IF FGt0(R(i)) THEN FDiv(N(i, j), R(i)) ELSE Zero)

\* C20: the global Q of mmvt_Q_N_R, each per-anchor Q_alpha and the
\* k_alpha_beta_matrix of make_mcmc_quantities are generators: the
\* off-diagonal entry (i, j) is N(i,j) / R(i) when R(i) > 0 and 0
\* otherwise, hence >= 0, and every row sums to zero.
C20_RateMatricesAreGenerators ==
    /\ sample.stage \in {"mcmc", "Q"} =>
           LET q == sample.mcmc[1]
               nonbulk == Ascending(NonBulk(model))
               m == model.num_anchors - 1
           IN /\ IsGenerator(q.k_alpha_beta_matrix, model.num_anchors)
              /\ \A a \in NonBulk(model) : \A b \in Anchors(model) \ {a} :
                     FEq(q.k_alpha_beta_matrix[a, b],
                         Get(sample.k_alpha_beta[1], <<a, b>>, Zero))
              /\ \A p \in DOMAIN q.mmvt_Qij_alpha :
                     LET N(i, j) ==
                             Float(Get(sample.N_i_j_alpha[1][nonbulk[p]],
                                       <<i, j>>, 0))
                         R(i) == Get(sample.R_i_alpha[1][nonbulk[p]], i, Zero)
                     IN /\ IsGenerator(q.mmvt_Qij_alpha[p], m)
                        /\ IsRateOf(q.mmvt_Qij_alpha[p], N, R, m)
    /\ sample.stage = "Q" =>
           LET q == sample.Q[1]
               m == model.num_anchors - 1
               N(i, j) == q.mmvt_Nij[i, j]
               R(i) == q.mmvt_Ri[i]
           IN IsGenerator(q.mmvt_Q, m) /\ IsRateOf(q.mmvt_Q, N, R, m)

\* C20 witness: a global Q with a positive rate, built from per-anchor
\* matrices of which one has a row with a positive rate and a row of a
\* milestone without incubation time.
C20_Witness ==
    /\ sample.stage = "Q"
    /\ \E i, j \in Milestones(model) : i # j /\ FGt0(sample.Q[1].mmvt_Q[i, j])
    /\ \E p \in DOMAIN sample.mcmc[1].mmvt_Ri_alpha :
           /\ \E i \in Milestones(model) :
                  IsZero(sample.mcmc[1].mmvt_Ri_alpha[p][i])
           /\ \E i, j \in Milestones(model) :
                  i # j /\ FGt0(sample.mcmc[1].mmvt_Qij_alpha[p][i, j])

\* The bulk anchor of the model is its last anchor.
BulkLast == BulkAnchors(model) = {model.num_anchors - 1}

\* The pairs of neighboring non-bulk anchors without an entry in the
\* k_alpha_beta of the sample.
MissingRates ==
    {pair \in NeighborPairs(model) : pair \notin DOMAIN sample.k_alpha_beta[1]}

\* C21: when k_alpha_beta has no entry for a pair (anchor, neighbor),
\* calculate_pi_alpha and make_mcmc_quantities take the rate as 0 and
\* complete rather than fail.
C21_MissingRateIsZero ==
    /\ (/\ sample.stage = "pi"
        /\ sample.k_alpha_beta # NoList
        /\ BulkLast
        /\ MissingRates # {}) => sample.status = "ok"
    /\ sample.stage = "mcmc" =>
           \A pair \in MissingRates :
               IsZero(sample.mcmc[1].k_alpha_beta_matrix[pair[1], pair[2]])

\* C22: the loop of monte_carlo_milestoning_error runs exactly
\* num*stride + skip steps; the retained steps are exactly those with
\* counter > skip and counter divisible by stride, so none has
\* counter <= skip and consecutive ones are stride steps apart; skip
\* defaults to 10*N^2 and stride to N^2, N the dimension of Q.
C22_RetainedEveryStride ==
    LET kept == {data_sample_list[n] : n \in DOMAIN data_sample_list}
        N == mcmc_args.n_milestones
    IN /\ pc \in {"done", "AssertionError"} =>
              counter = num * stride + skip
       /\ pc # "idle" =>
              /\ \A c \in 0..(counter - 1) :
                     c \in kept <=> (c > skip /\ c % stride = 0)
              /\ \A c \in kept : c > skip /\ c < counter
              /\ \A n \in 1..(Len(data_sample_list) - 1) :
                     data_sample_list[n + 1] - data_sample_list[n] = stride
              /\ mcmc_args.skip = None => skip = 10 * N * N
              /\ mcmc_args.stride = None => stride = N * N
              /\ mcmc_args.skip # None => skip = mcmc_args.skip
              /\ mcmc_args.stride # None => stride = mcmc_args.stride

\* C22 witness: a call with the default stride has returned two retained
\* samples that are more than one step apart.
C22_Witness ==
    /\ pc = "done"
    /\ mcmc_args.stride = None
    /\ stride >= 2
    /\ Len(data_sample_list) >= 2

\* The merged list without the records outside the window: the markers and
\* the records with min_time <= time <= max_time.
Windowed(lines) ==
    LET keep(line) == ~IsEvent(line) \/ InWindow(line)
    IN SelectSeq(lines, keep)

\* C24: with min_time and/or max_time the returned statistics are those of
\* exactly the records of the merged list inside the window, whatever the
\* number of swarms: they equal the statistics the loop computes, without a
\* window, from the merged list with the outside records taken away.
C24_WindowedStatistics ==
    (Returned /\ RestartCheck
        /\ (args.min_time # None \/ args.max_time # None)) =>
        LET s == ProcessLines(InitialRun, Windowed(ret.lines), 1, None, None,
                              args.skip_restart_check)
        IN s.status = "ok" => ret = Finish(s, ret.lines)

\* File j restarts from before file i began: it is the next file with
\* records, it continues the swarm of file i, and every record of file i is
\* later than its first record.
RestartsBefore(ofl, i, j) ==
    /\ Len(ofl[i].lines) > 0
    /\ j = NextFileWithLines(ofl, i)
    /\ j # 0
    /\ SwarmOfFile(ofl, i) = SwarmOfFile(ofl, j)
    /\ \A k \in 1..Len(ofl[i].lines) :
           ofl[i].lines[k].dest_time > ofl[j].lines[1].dest_time

\* C29: with the restart check, when every record of a file is later than
\* the first record of the next file, the trimming loop ends without an
\* error, no record of that file is in the merged list, and the records of
\* the next file are.
C29_WholeFileTrimmed ==
    (Called /\ RestartCheck) =>
        \A i, j \in 1..Len(output_file_list) :
            RestartsBefore(output_file_list, i, j) =>
                /\ ret.status # "IndexError"
                /\ \A n \in 1..Len(ret.lines) :
                       IsEvent(ret.lines[n]) => ret.lines[n].file # i

\* C28: the Q of every kept sample is assembled from the per-anchor rate
\* matrices drawn in the step that made the sample, and from the pi_alpha
\* of that same step.
C28_SameIterationQ ==
    /\ Len(sample_Q) = Len(data_sample_list)
    /\ \A n \in 1..Len(data_sample_list) :
           /\ sample_Q[n].pi_alpha = Sampled_At(data_sample_list[n])
           /\ sample_Q[n].mmvt_Nij_list = Sampled_At(data_sample_list[n])

\* The lower (k = -1) and the upper (k = 1) milestones returned for the
\* a-th input anchor, and the anchor index that call was given.
SideOf(a, k) ==
    {n \in DOMAIN anchor_milestones[a] :
        anchor_milestones[a][n].variables.k = k}
LowerOf(a) == anchor_milestones[a][CHOOSE n \in SideOf(a, -1) : TRUE]
UpperOf(a) == anchor_milestones[a][CHOOSE n \in SideOf(a, 1) : TRUE]
AnchorIndexOf(a) == cv_args.anchor_index + a - 1
\* The boundary a milestone of the a-th anchor lies on: the lower of the two
\* anchor indices it separates.
BoundaryOf(a, milestone) ==
    IF milestone.neighbor_anchor_index < AnchorIndexOf(a)
    THEN milestone.neighbor_anchor_index ELSE AnchorIndexOf(a)

\* C30: calling make_mmvt_milestoning_objects_spherical for the input
\* anchors in order, milestone_index threaded and the alias starting at the
\* same value for each anchor: the first anchor has no lower and the last
\* no upper milestone, every other side has one; the lower milestone
\* neighbors anchor_index - 1 and the upper anchor_index + 1; the aliases of
\* one anchor are distinct; the upper milestone of an anchor and the lower
\* milestone of the next have the same index; and two milestones have the
\* same index exactly when they lie on the same boundary.
C30_MilestoneIndices ==
    LET made == 1..Len(anchor_milestones)
        last == Len(input_anchors)
    IN /\ \A a \in made :
              LET ms == anchor_milestones[a]
              IN /\ Cardinality(SideOf(a, -1)) = (IF a = 1 THEN 0 ELSE 1)
                 /\ Cardinality(SideOf(a, 1)) = (IF a = last THEN 0 ELSE 1)
                 /\ Len(ms) = Cardinality(SideOf(a, -1) \cup SideOf(a, 1))
                 /\ a > 1 =>
                        LowerOf(a).neighbor_anchor_index = AnchorIndexOf(a) - 1
                 /\ a < last =>
                        UpperOf(a).neighbor_anchor_index = AnchorIndexOf(a) + 1
                 /\ \A p, q \in DOMAIN ms :
                        p # q => ms[p].alias_index # ms[q].alias_index
                 /\ (a + 1) \in made => UpperOf(a).index = LowerOf(a + 1).index
       /\ \A a, b \in made :
              \A p \in DOMAIN anchor_milestones[a],
                 q \in DOMAIN anchor_milestones[b] :
                  (anchor_milestones[a][p].index = anchor_milestones[b][q].index)
                  <=> (BoundaryOf(a, anchor_milestones[a][p])
                         = BoundaryOf(b, anchor_milestones[b][q]))

\* C30 witness: the milestones of three anchors numbered from 1 are made, the
\* middle anchor has a lower and an upper milestone with different indices.
C30_Witness ==
    /\ Len(input_anchors) = 3
    /\ Len(anchor_milestones) = 3
    /\ cv_args.anchor_index = 1
    /\ Len(anchor_milestones[2]) = 2
    /\ LowerOf(2).index # UpperOf(2).index
    /\ UpperOf(2).index = LowerOf(3).index

\* Vocabulary of the NAMD reader.
NamdCalled == namd_ret.status # "none"
NamdReturned == namd_ret.status = "ok"
NamdTime(line) == line.stepnum * namd_args.timestep
NamdInWindow(line) ==
    /\ namd_args.min_time # None => NamdTime(line) >= namd_args.min_time
    /\ namd_args.max_time # None => NamdTime(line) <= namd_args.max_time
\* The lines of all files in file order.
NamdAllLines ==
    LET RECURSIVE Cat(_)
        Cat(i) == IF i > Len(namd_file_list) THEN <<>>
                  ELSE NamdReadFiles(namd_file_list)[i] \o Cat(i + 1)
    IN Cat(1)
\* The lines the loop of lines 423-516 gets to process: those before
\* min_time are skipped, and the loop ends at the first line after max_time.
NamdProcessed(lines) ==
    LET stops == {k \in 1..Len(lines) :
                     /\ ~(namd_args.min_time # None
                            /\ NamdTime(lines[k]) < namd_args.min_time)
                     /\ namd_args.max_time # None
                     /\ NamdTime(lines[k]) > namd_args.max_time}
        stop == IF stops = {} THEN Len(lines) + 1
                ELSE CHOOSE k \in stops : \A m \in stops : k <= m
    IN SelectSeq(SubSeq(lines, 1, stop - 1), NamdInWindow)

\* C25: with the restart check, when the next file starts at a step earlier
\* than trailing lines of a file, those trailing lines are not in the merged
\* list.
C25_NamdRestartTrimmed ==
    (NamdCalled /\ ~namd_args.skip_restart_check) =>
        \A i \in 1..(Len(namd_file_list) - 1) :
            Len(namd_file_list[i + 1]) > 0 =>
                \A n \in 1..Len(namd_ret.lines) :
                    namd_ret.lines[n].file = i =>
                        ~(namd_ret.lines[n].stepnum
                            > namd_file_list[i + 1][1].stepnum)

\* C26: T_alpha_total of the NAMD reader is the time of the last processed
\* line minus the time of the first processed line, whether a cell line or
\* a milestone line comes first.
C26_NamdTotalTime ==
    NamdReturned =>
        LET P == NamdProcessed(namd_ret.lines)
        IN Len(P) > 0 =>
               namd_ret.T_alpha_total = NamdTime(Last(P)) - NamdTime(Head(P))

\* The log is one a run without restart overlap leaves: no file is empty
\* and the steps do not decrease over the files.
NamdOrdered ==
    /\ \A i \in 1..Len(namd_file_list) : Len(namd_file_list[i]) > 0
    /\ \A p, q \in 1..Len(NamdAllLines) :
           p < q => NamdAllLines[p].stepnum <= NamdAllLines[q].stepnum

\* C27: for any min_time, also one later than the "none" milestone line, the
\* lines before min_time are skipped and the others are processed without
\* an error: the call returns, and it has counted one bounce for every
\* line from min_time on that has a source.
C27_NamdMinTime ==
    (NamdCalled /\ NamdOrdered
        /\ namd_args.min_time # None /\ namd_args.max_time = None) =>
        /\ namd_ret.status = "ok"
        /\ LET counted(line) ==
                   NamdInWindow(line)
                   /\ ~(line.kind = "Milestone" /\ line.src = NONE_SRC)
           IN DictSum(namd_ret.N_alpha_beta)
                  = Len(SelectSeq(NamdAllLines, counted))

====
